---- MODULE Spec2Model ----
(***************************************************************************)
(* Share-image composition of ma-bucket-liste-api.                         *)
(*                                                                         *)
(* The share route of routes/auth-bucket.js requires                       *)
(* utils/cloudinary-share-helper.js, so that file is the share helper the  *)
(* program runs; the copies of the helper kept in server.js and in the     *)
(* older helper files are not called by any route.                         *)
(*                                                                         *)
(*   Spec         generateShareData: validation, the four render calls,    *)
(*                their answers in any order, the aggregated outcome       *)
(*   SpecSubmission  generateShareData up to its first await               *)
(*   SpecRoute    the share route's selection of activities                *)
(*   SpecShareSet the share route up to the render calls it causes         *)
(*   SpecLayout   calculateGridLayout applied to (imageCount, formatKey)   *)
(*   SpecFooter   buildFooterOverlay applied to (formatKey, stats, names)  *)
(*   SpecOverlay  buildOverlayTransformations applied to its arguments     *)
(*   SpecTokens   concurrent share-link creations: token, check, insert    *)
(*   SpecAccess   concurrent GET /share/:token requests on created links   *)
(*   SpecBucketList  add, status update and delete of bucket-list items    *)
(***************************************************************************)
EXTENDS Integers, Sequences, FiniteSets, TLC

VARIABLES
  pc,                \* where the modelled call stands
  imageCount,        \* calculateGridLayout: imageCount argument
  formatKey,         \* formatKey argument of the function under call
  layout,            \* calculateGridLayout: rows, cols and returned positions
  stats,             \* stats argument: completed and total counts
  destinationNames,  \* destinationNames argument
  footer,            \* buildFooterOverlay: returned overlays
  images,            \* buildOverlayTransformations: images argument
  positions,         \* buildOverlayTransformations: positions argument
  allOverlays,       \* buildOverlayTransformations: returned overlays
  bucketListItems,   \* generateShareData: bucketListItems argument
  imagesToUse,       \* generateShareData: validated public ids
  destinationsToUse, \* generateShareData: destination names of validated items
  explicitCalls,     \* cloudinary.uploader.explicit calls issued so far
  rendered,          \* the render service's answer to each call, once given
  arrival,           \* the formats in the order their answers arrived
  job,               \* generationPromises: state and value per format
  outcome,           \* generateShareData: pending, returned value or thrown error
  bucketList,        \* share route: rows of user_bucket_lists with their image
  selectedActivities, \* share route: activities handed to generateShareData
  share_links,       \* rows of the share_links table, in insertion order
  uniqueIndex,       \* whether the table refuses a second row with one key
  request,           \* share-link creation requests: position, token, attempt
  now,               \* the clock, in days
  user_profiles,     \* ids of the rows of the user_profiles table
  access,            \* GET /share/:token requests: position, locals, answer
  accessLog,         \* accesses begun, and the pages and clicks served per token
  user_bucket_lists, \* rows of the table the routes of auth-bucket.js use
  user_bucket_list,  \* rows of the table the handler of status.js uses
  calling,           \* bucket-list requests in progress: position and locals
  reply              \* bucket-list requests answered, and the last answer

vars == <<pc, imageCount, formatKey, layout, stats, destinationNames, footer,
          images, positions, allOverlays, bucketListItems, imagesToUse,
          destinationsToUse, explicitCalls, rendered, arrival, job, outcome,
          bucketList, selectedActivities, share_links, uniqueIndex, request,
          now, user_profiles, access, accessLog, user_bucket_lists,
          user_bucket_list, calling, reply>>

layoutVars == <<imageCount, layout>>

footerVars == <<stats, destinationNames, footer>>

overlayVars == <<images, positions, allOverlays>>

shareVars == <<bucketListItems, imagesToUse, destinationsToUse, explicitCalls,
               rendered, arrival, job, outcome>>

accessVars == <<now, user_profiles, access, accessLog>>

listVars == <<user_bucket_lists, user_bucket_list, calling, reply>>

tokenVars == <<share_links, uniqueIndex, request, accessVars, listVars>>

routeVars == <<bucketList, selectedActivities, tokenVars>>

(***************************************************************************)
(* Bounds of the model.                                                    *)
(***************************************************************************)
\* largest image count handed to calculateGridLayout
MaxCount == 15

\* share-link creation requests in flight together
MaxRequests == 2

\* bucket-list requests served in one run
MaxCalls == 2

\* share-page requests served in one run
MaxAccesses == 3

\* longest bucket list handed to the share route together with generateShareData
MaxList == 10

\* largest stats.total handed to buildFooterOverlay
MaxTotal == 40

\* largest number of images and of positions handed to buildOverlayTransformations
MaxImages == 9

\* largest number of destination names handed to buildOverlayTransformations
MaxNames == 6

\* largest number of items handed to generateShareData
MaxItems == 2

\* largest number of rows of one user's bucket list read by the share route
MaxRows == 4

(***************************************************************************)
(* SOCIAL_FORMATS, utils/cloudinary-share-helper.js:16-53.                 *)
(***************************************************************************)
FormatKeys == <<"instagram", "facebook", "twitter", "stories">>

FormatSet == {FormatKeys[i] : i \in 1..Len(FormatKeys)}

SOCIAL_FORMATS ==
  [f \in FormatSet |->
     CASE f = "instagram" -> [width |-> 1080, height |-> 1080, name |-> "Instagram Post",
                              maxImages |-> 9,
                              headerHeight |-> 70, footerHeight |-> 90,
                              showDestinations |-> TRUE]
       [] f = "facebook"  -> [width |-> 1200, height |-> 630, name |-> "Facebook",
                              maxImages |-> 6,
                              headerHeight |-> 60, footerHeight |-> 70,
                              showDestinations |-> FALSE]
       [] f = "twitter"   -> [width |-> 1200, height |-> 675, name |-> "Twitter",
                              maxImages |-> 6,
                              headerHeight |-> 60, footerHeight |-> 70,
                              showDestinations |-> FALSE]
       [] f = "stories"   -> [width |-> 1080, height |-> 1920, name |-> "Instagram Stories",
                              maxImages |-> 6,
                              headerHeight |-> 80, footerHeight |-> 100,
                              showDestinations |-> FALSE]]

Min(a, b) == IF a < b THEN a ELSE b

(***************************************************************************)
(* calculateGridLayout, utils/cloudinary-share-helper.js:80-144.           *)
(***************************************************************************)
\* const gap = 10
gap == 10

\* the switch on imageCount that picks rows and cols (lines 90-118)
gridShape(n, f) ==
  CASE n = 1 -> [rows |-> 1, cols |-> 1]
    [] n = 2 -> [rows |-> IF f = "stories" THEN 2 ELSE 1,
                 cols |-> IF f = "stories" THEN 1 ELSE 2]
    [] n = 3 -> [rows |-> IF f = "stories" THEN 3 ELSE 1,
                 cols |-> IF f = "stories" THEN 1 ELSE 3]
    [] n = 4 -> [rows |-> 2, cols |-> 2]
    [] n \in {5, 6} -> [rows |-> 2, cols |-> 3]
    [] n \in {7, 8, 9} -> [rows |-> 3, cols |-> 3]
    [] OTHER -> [rows |-> 3, cols |-> 3]

\* calculateGridLayout with the row of image i taken as floor(i / rows)
calculateGridLayout_rowByRows(n, f) ==
  LET format == SOCIAL_FORMATS[f]
      availableHeight == format.height - format.headerHeight - format.footerHeight
      availableWidth == format.width
      g == gridShape(n, f)
      imageWidth == (availableWidth - (g.cols - 1) * gap) \div g.cols
      imageHeight == (availableHeight - (g.rows - 1) * gap) \div g.rows
      numImages == Min(n, g.rows * g.cols)
  IN [i \in 1..numImages |->
        LET row == (i - 1) \div g.rows
            col == (i - 1) % g.cols
        IN [x |-> col * (imageWidth + gap),
            y |-> format.headerHeight + row * (imageHeight + gap),
            width |-> imageWidth,
            height |-> imageHeight]]

\* calculateGridLayout with the footer band left in the available height
calculateGridLayout_noFooter(n, f) ==
  LET format == SOCIAL_FORMATS[f]
      availableHeight == format.height - format.headerHeight
      availableWidth == format.width
      g == gridShape(n, f)
      imageWidth == (availableWidth - (g.cols - 1) * gap) \div g.cols
      imageHeight == (availableHeight - (g.rows - 1) * gap) \div g.rows
      numImages == Min(n, g.rows * g.cols)
  IN [i \in 1..numImages |->
        LET row == (i - 1) \div g.cols
            col == (i - 1) % g.cols
        IN [x |-> col * (imageWidth + gap),
            y |-> format.headerHeight + row * (imageHeight + gap),
            width |-> imageWidth,
            height |-> imageHeight]]

\* calculateGridLayout laying out six rectangles at most
calculateGridLayout_sixAtMost(n, f) ==
  LET format == SOCIAL_FORMATS[f]
      availableHeight == format.height - format.headerHeight - format.footerHeight
      availableWidth == format.width
      g == gridShape(n, f)
      imageWidth == (availableWidth - (g.cols - 1) * gap) \div g.cols
      imageHeight == (availableHeight - (g.rows - 1) * gap) \div g.rows
      numImages == Min(n, 6)
  IN [i \in 1..numImages |->
        LET row == (i - 1) \div g.cols
            col == (i - 1) % g.cols
        IN [x |-> col * (imageWidth + gap),
            y |-> format.headerHeight + row * (imageHeight + gap),
            width |-> imageWidth,
            height |-> imageHeight]]

\* the rectangles pushed by the loop of lines 120-143
calculateGridLayout(n, f) ==
  LET format == SOCIAL_FORMATS[f]
      availableHeight == format.height - format.headerHeight - format.footerHeight
      availableWidth == format.width
      g == gridShape(n, f)
      imageWidth == (availableWidth - (g.cols - 1) * gap) \div g.cols
      imageHeight == (availableHeight - (g.rows - 1) * gap) \div g.rows
      numImages == Min(n, g.rows * g.cols)
  IN [i \in 1..numImages |->
        LET row == (i - 1) \div g.cols
            col == (i - 1) % g.cols
        IN [x |-> col * (imageWidth + gap),
            y |-> format.headerHeight + row * (imageHeight + gap),
            width |-> imageWidth,
            height |-> imageHeight]]

(***************************************************************************)
(* JavaScript numbers.  completedCount / totalCount and the product by 100 *)
(* are IEEE-754 binary64 operations, each rounded to nearest, ties to      *)
(* even.  A positive double is [hi, mid, lo, e]: its 53 significand bits   *)
(* split into limbs of 17, 18 and 18 bits, most significant first, and its *)
(* value is (hi * 2^36 + mid * 2^18 + lo) * 2^e.  The operands stay below  *)
(* 2^12, so every intermediate fits a 32-bit integer.                      *)
(***************************************************************************)
\* bits of the two low limbs of a significand
LimbBits == 18

\* bits of the high limb of a significand
HighBits == 17

Limb == 2^LimbBits

\* the significand [hi, mid, lo] plus one unit in the last place
nextUp(v) ==
  LET lo == (v.lo + 1) % Limb
      c1 == (v.lo + 1) \div Limb
      mid == (v.mid + c1) % Limb
      c2 == (v.mid + c1) \div Limb
      hi == v.hi + c2
  IN IF hi = 2^HighBits
     THEN [hi |-> 2^(HighBits - 1), mid |-> 0, lo |-> 0, e |-> v.e + 1]
     ELSE [hi |-> hi, mid |-> mid, lo |-> lo, e |-> v.e]

\* round to nearest, ties to even: v is the truncated result, guard the first
\* bit cut off, sticky whether anything nonzero lies below the guard bit
roundNearestEven(v, guard, sticky) ==
  IF guard = 1 /\ (sticky \/ (v.lo % 2) = 1) THEN nextUp(v) ELSE v

\* the largest j >= 0 with t * 2^j <= c, for c >= t
scaleDown(c, t) == CHOOSE j \in 0..12 : t * 2^j <= c /\ c < t * 2^(j + 1)

\* the smallest k >= 0 with c * 2^k >= t, for c < t
scaleUp(c, t) == CHOOSE k \in 0..12 : c * 2^k >= t /\ (k = 0 \/ c * 2^(k - 1) < t)

\* the double c / t for integers 0 < c < 2^12, 0 < t < 2^12
divideDouble(c, t) ==
  LET x == IF c >= t THEN scaleDown(c, t) ELSE 0 - scaleUp(c, t)
      a == IF c >= t THEN c ELSE c * 2^(0 - x)
      d == IF c >= t THEN t * 2^x ELSE t
      \* long division of a / d in [1, 2): 1 + 16 bits, 18 bits, 18 bits
      r0 == a - d
      hi == 2^(HighBits - 1) + ((r0 * 2^(HighBits - 1)) \div d)
      r1 == (r0 * 2^(HighBits - 1)) % d
      mid == (r1 * Limb) \div d
      r2 == (r1 * Limb) % d
      lo == (r2 * Limb) \div d
      r3 == (r2 * Limb) % d
      guard == IF 2 * r3 >= d THEN 1 ELSE 0
      sticky == (2 * r3 - guard * d) # 0
  IN roundNearestEven([hi |-> hi, mid |-> mid, lo |-> lo,
                       e |-> x - (HighBits - 1) - 2 * LimbBits], guard, sticky)

\* the double v * k for an integer 0 < k < 2^7
timesDouble(v, k) ==
  LET plo == v.lo * k
      pmid == (v.mid * k) + (plo \div Limb)
      phi == (v.hi * k) + (pmid \div Limb)
      lo1 == plo % Limb
      mid1 == pmid % Limb
      \* the exact product is phi * 2^36 + mid1 * 2^18 + lo1: cut its s low bits
      s == CHOOSE n \in 0..7 : 2^(HighBits - 1 + n) <= phi /\ phi < 2^(HighBits + n)
      cut == 2^s
      keep == 2^(LimbBits - s)
      guard == IF s = 0 THEN 0 ELSE (lo1 \div 2^(s - 1)) % 2
      sticky == s > 1 /\ (lo1 % 2^(s - 1)) # 0
  IN roundNearestEven([hi |-> phi \div cut,
                       mid |-> (mid1 \div cut) + ((phi % cut) * keep),
                       lo |-> (lo1 \div cut) + ((mid1 % cut) * keep),
                       e |-> v.e + s], guard, sticky)

\* Math.round of a positive double below 2^16: the nearest integer, halves
\* upwards
MathRound(v) ==
  LET ni == HighBits + 2 * LimbBits + v.e
  IN IF ni < 0 THEN 0
     ELSE IF ni = 0 THEN 1
     ELSE (v.hi \div 2^(HighBits - ni)) + ((v.hi \div 2^(HighBits - ni - 1)) % 2)

(***************************************************************************)
(* STYLE_CONFIG, utils/cloudinary-share-helper.js:65-73.                   *)
(***************************************************************************)
STYLE_CONFIG == [textColor |-> "rgb:ffffff", primaryFont |-> "Montserrat"]

\* encodeURIComponent(text): the text, percent-escaped
encodeURIComponent(text) == [escaped |-> text]

(***************************************************************************)
(* buildFooterOverlay, utils/cloudinary-share-helper.js:201-270.           *)
(***************************************************************************)
\* const percentage = totalCount > 0 ? Math.round((completedCount / totalCount) * 100) : 0
percentage(completedCount, totalCount) ==
  IF totalCount > 0
  THEN IF completedCount = 0 THEN 0
       ELSE MathRound(timesDouble(divideDouble(completedCount, totalCount), 100))
  ELSE 0

\* the first k elements of a sequence: Array.prototype.slice(0, k)
slice0(s, k) == SubSeq(s, 1, Min(k, Len(s)))

\* buildFooterOverlay without the showDestinations test of line 227
buildFooterOverlay_anyFormat(f, st, names) ==
  LET format == SOCIAL_FORMATS[f]
      completedCount == st.completed
      totalCount == st.total
      statsText == [kind |-> "stats", completed |-> completedCount,
                    total |-> totalCount,
                    percentage |-> percentage(completedCount, totalCount)]
      displayNames == slice0(names, 5)
      destinationsText == [kind |-> "destinations", names |-> displayNames,
                           more |-> Len(names) > 5]
      ctaText == [kind |-> "cta", site |-> "mabucketliste.fr"]
      statsLine ==
        << [overlay |-> [font_family |-> STYLE_CONFIG.primaryFont, font_size |-> 36,
                         font_weight |-> "black",
                         text |-> encodeURIComponent(statsText)],
            color |-> STYLE_CONFIG.textColor],
           [flags |-> "layer_apply", gravity |-> "south_west", x |-> 30,
            y |-> IF format.showDestinations THEN 55 ELSE 25] >>
      destinationsLine ==
        IF Len(names) > 0
        THEN << [overlay |-> [font_family |-> STYLE_CONFIG.primaryFont,
                              font_size |-> 24,
                              text |-> encodeURIComponent(destinationsText)],
                 color |-> STYLE_CONFIG.textColor],
                [flags |-> "layer_apply", gravity |-> "south_west", x |-> 30,
                 y |-> 30] >>
        ELSE <<>>
      ctaLine ==
        << [overlay |-> [font_family |-> STYLE_CONFIG.primaryFont, font_size |-> 32,
                         font_weight |-> "black", text |-> ctaText],
            color |-> STYLE_CONFIG.textColor],
           [flags |-> "layer_apply", gravity |-> "south_east", x |-> 30,
            y |-> IF format.showDestinations THEN 30 ELSE 25] >>
  IN statsLine \o destinationsLine \o ctaLine

buildFooterOverlay(f, st, names) ==
  LET format == SOCIAL_FORMATS[f]
      completedCount == st.completed
      totalCount == st.total
      statsText == [kind |-> "stats", completed |-> completedCount,
                    total |-> totalCount,
                    percentage |-> percentage(completedCount, totalCount)]
      displayNames == slice0(names, 5)
      destinationsText == [kind |-> "destinations", names |-> displayNames,
                           more |-> Len(names) > 5]
      ctaText == [kind |-> "cta", site |-> "mabucketliste.fr"]
      statsLine ==
        << [overlay |-> [font_family |-> STYLE_CONFIG.primaryFont, font_size |-> 36,
                         font_weight |-> "black",
                         text |-> encodeURIComponent(statsText)],
            color |-> STYLE_CONFIG.textColor],
           [flags |-> "layer_apply", gravity |-> "south_west", x |-> 30,
            y |-> IF format.showDestinations THEN 55 ELSE 25] >>
      destinationsLine ==
        IF format.showDestinations /\ Len(names) > 0
        THEN << [overlay |-> [font_family |-> STYLE_CONFIG.primaryFont,
                              font_size |-> 24,
                              text |-> encodeURIComponent(destinationsText)],
                 color |-> STYLE_CONFIG.textColor],
                [flags |-> "layer_apply", gravity |-> "south_west", x |-> 30,
                 y |-> 30] >>
        ELSE <<>>
      ctaLine ==
        << [overlay |-> [font_family |-> STYLE_CONFIG.primaryFont, font_size |-> 32,
                         font_weight |-> "black", text |-> ctaText],
            color |-> STYLE_CONFIG.textColor],
           [flags |-> "layer_apply", gravity |-> "south_east", x |-> 30,
            y |-> IF format.showDestinations THEN 30 ELSE 25] >>
  IN statsLine \o destinationsLine \o ctaLine

(***************************************************************************)
(* LOGO_CONFIG, utils/cloudinary-share-helper.js:56-62.                    *)
(***************************************************************************)
LOGO_CONFIG ==
  [publicId |-> "logo_xdetr5", width |-> 250, position |-> "top_right",
   margin |-> 20, opacity |-> 95]

(***************************************************************************)
(* buildHeaderOverlay, utils/cloudinary-share-helper.js:149-196.           *)
(***************************************************************************)
buildHeaderOverlay(f) ==
  LET format == SOCIAL_FORMATS[f]
      logoGravity ==
        CASE LOGO_CONFIG.position = "top_right" -> "north_east"
          [] LOGO_CONFIG.position = "top_left" -> "north_west"
          [] LOGO_CONFIG.position = "center" -> "center"
          [] OTHER -> "north_east"
      logoX == IF LOGO_CONFIG.position = "center" THEN 0 ELSE LOGO_CONFIG.margin
      logoY ==
        IF LOGO_CONFIG.position = "center"
        THEN (0 - (format.height \div 2)) + (format.headerHeight \div 2)
        ELSE LOGO_CONFIG.margin
  IN << [overlay |-> LOGO_CONFIG.publicId, width |-> LOGO_CONFIG.width,
         crop |-> "scale", opacity |-> LOGO_CONFIG.opacity],
        [flags |-> "layer_apply", gravity |-> logoGravity, x |-> logoX, y |-> logoY] >>

(***************************************************************************)
(* buildOverlayTransformations, utils/cloudinary-share-helper.js:275-315.  *)
(***************************************************************************)
\* the two descriptors pushed for image index of images.forEach, none when
\* positions[index] is missing
RECURSIVE imageOverlays(_, _, _)
imageOverlays(imgs, pos, index) ==
  IF index > Len(imgs) THEN <<>>
  ELSE (IF index > Len(pos) THEN <<>>
        ELSE << [overlay |-> imgs[index], width |-> pos[index].width,
                 height |-> pos[index].height, crop |-> "fill", gravity |-> "auto"],
                [flags |-> "layer_apply", gravity |-> "north_west",
                 x |-> pos[index].x, y |-> pos[index].y] >>)
       \o imageOverlays(imgs, pos, index + 1)

\* buildOverlayTransformations with the logo pushed before the images
buildOverlayTransformations_headerFirst(imgs, pos, f, st, names) ==
  buildHeaderOverlay(f) \o imageOverlays(imgs, pos, 1) \o buildFooterOverlay(f, st, names)

buildOverlayTransformations(imgs, pos, f, st, names) ==
  imageOverlays(imgs, pos, 1) \o buildHeaderOverlay(f) \o buildFooterOverlay(f, st, names)

(***************************************************************************)
(* generateShareData, utils/cloudinary-share-helper.js:320-478.            *)
(*                                                                         *)
(* A cloudinary_public_id is null or a string; a string is the sequence of *)
(* its characters.                                                         *)
(***************************************************************************)
Null == [type |-> "null"]

Str(chars) == [type |-> "string", chars |-> chars]

Letters ==
  {"a", "b", "c", "d", "e", "f", "g", "h", "i", "j", "k", "l", "m", "n", "o", "p",
   "q", "r", "s", "t", "u", "v", "w", "x", "y", "z", "A", "B", "C", "D", "E", "F",
   "G", "H", "I", "J", "K", "L", "M", "N", "O", "P", "Q", "R", "S", "T", "U", "V",
   "W", "X", "Y", "Z"}

Digits == {"0", "1", "2", "3", "4", "5", "6", "7", "8", "9"}

\* const validFormat = /^[a-zA-Z0-9_\-\/\.]+$/ (line 348)
validFormat(chars) ==
  /\ Len(chars) > 0
  /\ \A i \in 1..Len(chars) : chars[i] \in Letters \cup Digits \cup {"_", "-", "/", "."}

WhiteSpace == {" ", "\t", "\n"}

\* String.prototype.trim
RECURSIVE trim(_)
trim(chars) ==
  IF chars = <<>> THEN <<>>
  ELSE IF chars[1] \in WhiteSpace THEN trim(Tail(chars))
  ELSE IF chars[Len(chars)] \in WhiteSpace THEN trim(SubSeq(chars, 1, Len(chars) - 1))
  ELSE chars

\* a value is truthy: neither null nor the empty string
truthy(v) == v.type = "string" /\ v.chars # <<>>

\* the forEach body keeping every item whose cloudinary_public_id is truthy
accepted_truthyOnly(item) == truthy(item.cloudinary_public_id)

\* the body of bucketListItems.forEach (lines 328-362): the item is accepted
accepted(item) ==
  /\ truthy(item.cloudinary_public_id)
  /\ LET publicId == trim(item.cloudinary_public_id.chars)
     IN /\ Len(publicId) # 0
        /\ publicId # <<"u", "n", "d", "e", "f", "i", "n", "e", "d">>
        /\ publicId # <<"n", "u", "l", "l">>
        /\ publicId # <<"N", "a", "N">>
        /\ validFormat(publicId)

\* imagesToUse after the forEach: the trimmed id of every accepted item
RECURSIVE validatedImages(_)
validatedImages(items) ==
  IF items = <<>> THEN <<>>
  ELSE (IF accepted(Head(items))
        THEN <<trim(Head(items).cloudinary_public_id.chars)>>
        ELSE <<>>) \o validatedImages(Tail(items))

\* destinationsToUse after the forEach: the destination_name of every
\* accepted item that has one
RECURSIVE validatedDestinations(_)
validatedDestinations(items) ==
  IF items = <<>> THEN <<>>
  ELSE (IF /\ accepted(Head(items))
           /\ "destination_name" \in DOMAIN Head(items)
           /\ truthy(Head(items).destination_name)
        THEN <<Head(items).destination_name.chars>>
        ELSE <<>>) \o validatedDestinations(Tail(items))

\* throw new Error('Aucune image valide dans la bucket list') (line 366)
NoValidImagesError == "Aucune image valide dans la bucket list"

\* throw new Error('Aucune image n\'a pu etre generee') (line 465)
AllFormatsFailedError == "Aucune image n'a pu etre generee"

\* const backgroundPublicId = 'purple-gradient_iaa2rn'
backgroundPublicId == "purple-gradient_iaa2rn"

\* limitedImages and positions of the callback of format f (lines 378-379)
composerArguments(f, imgs) ==
  LET limitedImages == slice0(imgs, SOCIAL_FORMATS[f].maxImages)
  IN [images |-> limitedImages,
      positions |-> calculateGridLayout(Len(limitedImages), f)]

\* the call of cloudinary.uploader.explicit made for format f (lines 378-412)
explicitCall(f, imgs, st, dests) ==
  LET formatConfig == SOCIAL_FORMATS[f]
      limitedImages == composerArguments(f, imgs).images
      pos == composerArguments(f, imgs).positions
      overlays == buildOverlayTransformations(limitedImages, pos, f, st, dests)
      transformation ==
        << [width |-> formatConfig.width, height |-> formatConfig.height,
            crop |-> "fill", background |-> "white"] >> \o overlays
  IN [formatKey |-> f, publicId |-> backgroundPublicId,
      transformation |-> transformation, format |-> "jpg",
      quality |-> "auto:good"]

\* the calls issued while Object.entries(SOCIAL_FORMATS).map runs each async
\* callback up to its await
allExplicitCalls(imgs, st, dests) ==
  [i \in 1..Len(FormatKeys) |-> explicitCall(FormatKeys[i], imgs, st, dests)]

\* generateShareData up to its first await with the guard of line 364 placed
\* after the map of line 374
submittedCalls_guardAfterMap(imgs, st, dests) == allExplicitCalls(imgs, st, dests)

\* the calls issued before generateShareData first awaits: none when the guard
\* of line 364 throws
submittedCalls(imgs, st, dests) ==
  IF Len(imgs) = 0 THEN <<>> ELSE allExplicitCalls(imgs, st, dests)

\* what the render service may answer to one call
Responses == {"eager", "no_eager", "error"}

\* the value the async callback of format f returns (lines 414-440)
jobValue(f, response) ==
  CASE response = "eager" ->
         [formatKey |-> f, success |-> TRUE,
          data |-> [imageUrl |-> <<"secure_url", f>>,
                    width |-> SOCIAL_FORMATS[f].width,
                    height |-> SOCIAL_FORMATS[f].height,
                    format |-> SOCIAL_FORMATS[f].name]]
    [] response = "no_eager" -> [formatKey |-> f, success |-> FALSE]
    [] response = "error" ->
         [formatKey |-> f, success |-> FALSE, error |-> "uploadError.message"]

\* the formats whose settled result is fulfilled with success (lines 452-456)
succeeded(jobs) ==
  {f \in FormatSet : jobs[f].state = "fulfilled" /\ jobs[f].value.success}

\* lines 449-472 with the successCount === 0 guard left out
aggregate_alwaysSuccess(jobs, st) ==
  [kind |-> "returned",
   value |-> [success |-> TRUE,
              images |-> [f \in succeeded(jobs) |-> jobs[f].value.data],
              stats |-> st]]

\* lines 449-472 reading the results in their order of arrival and stopping at
\* the first failed one
aggregate_arrivalOrder(jobs, st) ==
  LET firstFailed ==
        IF \E i \in DOMAIN arrival : arrival[i] \notin succeeded(jobs)
        THEN CHOOSE i \in DOMAIN arrival :
               /\ arrival[i] \notin succeeded(jobs)
               /\ \A j \in 1..(i - 1) : arrival[j] \in succeeded(jobs)
        ELSE Len(arrival) + 1
      kept == {arrival[i] : i \in 1..(firstFailed - 1)}
  IN IF Cardinality(succeeded(jobs)) = 0
     THEN [kind |-> "threw", error |-> AllFormatsFailedError]
     ELSE [kind |-> "returned",
           value |-> [success |-> TRUE,
                      images |-> [f \in kept |-> jobs[f].value.data],
                      stats |-> st]]

\* what generateShareData does once Promise.allSettled resolves (lines 449-472)
aggregate(jobs, st) ==
  IF Cardinality(succeeded(jobs)) = 0
  THEN [kind |-> "threw", error |-> AllFormatsFailedError]
  ELSE [kind |-> "returned",
        value |-> [success |-> TRUE,
                   images |-> [f \in succeeded(jobs) |-> jobs[f].value.data],
                   stats |-> st]]

(***************************************************************************)
(* GET /user/bucket-list/share/:type, routes/auth-bucket.js: the selection *)
(* of the activities handed to generateShareData.                          *)
(***************************************************************************)
\* Array.prototype.filter
RECURSIVE filterStatus(_, _)
filterStatus(rows, statuses) ==
  IF rows = <<>> THEN <<>>
  ELSE (IF Head(rows).status \in statuses THEN <<Head(rows)>> ELSE <<>>)
       \o filterStatus(Tail(rows), statuses)

\* .slice(0, 9)
SelectedMax == 9

\* [...completed, ...pending] with pending listed first
selectActivities_pendingFirst(rows) ==
  LET completed == filterStatus(rows, {"completed"})
      pending == filterStatus(rows, {"planned", "in_progress"})
      picked == slice0(pending \o completed, SelectedMax)
  IN [i \in 1..Len(picked) |->
        [cloudinary_public_id |-> picked[i].activity.cloudinary_public_id,
         title |-> picked[i].activity.title,
         status |-> picked[i].status]]

\* selectedActivities (lines 726-738)
selectActivities(rows) ==
  LET completed == filterStatus(rows, {"completed"})
      pending == filterStatus(rows, {"planned", "in_progress"})
      picked == slice0(completed \o pending, SelectedMax)
  IN [i \in 1..Len(picked) |->
        [cloudinary_public_id |-> picked[i].activity.cloudinary_public_id,
         title |-> picked[i].activity.title,
         status |-> picked[i].status]]

(***************************************************************************)
(* SpecLayout: the planner called with any count and any defined format.   *)
(***************************************************************************)
NoLayout == [rows |-> 0, cols |-> 0, positions |-> <<>>]

NoStats == [completed |-> 0, total |-> 0]

\* the variables of the calls a specification does not make
LayoutIdle == imageCount = 0 /\ layout = NoLayout

FooterIdle == footer = <<>>

OverlayIdle == images = <<>> /\ positions = <<>> /\ allOverlays = <<>>

NoOutcome == [kind |-> "pending"]

ShareIdle ==
  /\ bucketListItems = <<>>
  /\ imagesToUse = <<>>
  /\ destinationsToUse = <<>>
  /\ explicitCalls = <<>>
  /\ rendered = [f \in FormatSet |-> "none"]
  /\ arrival = <<>>
  /\ job = [f \in FormatSet |-> [state |-> "unstarted"]]
  /\ outcome = NoOutcome

\* the creation requests
Requests == 1..MaxRequests

\* the tokens crypto.randomBytes can give, cut down to two
Tokens == {"aB3xY9mK", "Zq81LmP0"}

\* the share-page requests that may be in progress together
Visitors == {1, 2}

\* a share-page request that has not arrived
NoAccess == [pc |-> "idle", token |-> "", bot |-> FALSE, shareLink |-> Null,
             status |-> 0]

\* a share-page request that has been answered
Answered(status) == [NoAccess EXCEPT !.pc = "done", !.status = status]

NoAccessLog == [begun |-> 0, pages |-> [t \in Tokens |-> 0],
                clicks |-> [t \in Tokens |-> 0]]

AccessIdle ==
  /\ now = 0
  /\ user_profiles = {}
  /\ access = [r \in Visitors |-> NoAccess]
  /\ accessLog = NoAccessLog

\* the bucket-list requests that may be in progress together
Callers == {1, 2}

\* a bucket-list request that has not arrived, or has been answered
NoCall == [pc |-> "idle", user |-> "", item |-> 0, activity |-> "", status |-> ""]

\* no bucket-list request answered yet
NoReply == [n |-> 0, route |-> "", user |-> "", item |-> 0, code |-> 0]

ListIdle ==
  /\ user_bucket_lists = <<>>
  /\ user_bucket_list = <<>>
  /\ calling = [c \in Callers |-> NoCall]
  /\ reply = NoReply

TokenIdle ==
  /\ AccessIdle
  /\ ListIdle
  /\ share_links = <<>>
  /\ uniqueIndex = FALSE
  /\ request = [r \in Requests |-> [pc |-> "idle", attempt |-> 0, token |-> "",
                                    checked |-> <<>>, error |-> "none"]]

RouteIdle == bucketList = <<>> /\ selectedActivities = <<>> /\ TokenIdle

\* a format key that SOCIAL_FORMATS does not define
UnknownKeys == {"linkedin"}

\* what `const { width, ... } = format` throws when format is undefined
\* (line 82)
DestructureError ==
  [name |-> "TypeError",
   message |-> "Cannot destructure property 'width' of 'format' as it is undefined."]

InitLayout ==
  /\ pc = "layout_call"
  /\ imageCount \in 0..MaxCount
  /\ formatKey \in FormatSet \cup UnknownKeys
  /\ layout = NoLayout
  /\ stats = NoStats
  /\ destinationNames = <<>>
  /\ FooterIdle
  /\ OverlayIdle
  /\ ShareIdle
  /\ RouteIdle

CallCalculateGridLayout ==
  /\ pc = "layout_call"
  /\ IF formatKey \in DOMAIN SOCIAL_FORMATS
     THEN /\ pc' = "layout_done"
          /\ layout' = [rows |-> gridShape(imageCount, formatKey).rows,
                        cols |-> gridShape(imageCount, formatKey).cols,
                        positions |-> calculateGridLayout(imageCount, formatKey)]
     ELSE /\ pc' = "layout_threw"
          /\ layout' = [error |-> DestructureError]
  /\ UNCHANGED <<imageCount, formatKey, footerVars, overlayVars, shareVars, routeVars>>

NextLayout == CallCalculateGridLayout

SpecLayout == InitLayout /\ [][NextLayout]_vars

(***************************************************************************)
(* Claims about the layout planner (SpecLayout).                           *)
(***************************************************************************)
\* the image counts the count-fidelity property is stated for
ClaimCounts == (0..9) \cup {15}

\* C1: for every defined format and every image count n in
\* {0,...,9,15}, calculateGridLayout returns exactly min(n, maxImages)
\* rectangles.
C1_CountFidelity ==
  (pc = "layout_done" /\ imageCount \in ClaimCounts) =>
     Len(layout.positions) = Min(imageCount, SOCIAL_FORMATS[formatKey].maxImages)

\* the interiors of rectangles a and b share a point
Overlap(a, b) ==
  /\ a.x < b.x + b.width
  /\ b.x < a.x + a.width
  /\ a.y < b.y + b.height
  /\ b.y < a.y + a.height

\* C2: every rectangle the planner returns has width > 0 and height > 0, and
\* no two rectangles of one call have overlapping interiors.
C2_PositiveDisjoint ==
  pc = "layout_done" =>
     /\ \A i \in DOMAIN layout.positions :
           layout.positions[i].width > 0 /\ layout.positions[i].height > 0
     /\ \A i, j \in DOMAIN layout.positions :
           i # j => ~Overlap(layout.positions[i], layout.positions[j])

\* a planner call that returned the full 3x3 grid of nine rectangles
C2_Witness ==
  pc = "layout_done" /\ formatKey = "instagram" /\ Len(layout.positions) = 9

\* C3: every rectangle the planner returns lies inside the photo band:
\* 0 <= x, x + width <= canvas width, headerHeight <= y and
\* y + height <= canvas height - footerHeight.
C3_InsideBand ==
  pc = "layout_done" =>
     \A i \in DOMAIN layout.positions :
        LET r == layout.positions[i]
            format == SOCIAL_FORMATS[formatKey]
        IN /\ 0 <= r.x
           /\ r.x + r.width <= format.width
           /\ format.headerHeight <= r.y
           /\ r.y + r.height <= format.height - format.footerHeight

\* a planner call for the tall format that filled its last row
C3_Witness ==
  pc = "layout_done" /\ formatKey = "stories" /\ Len(layout.positions) = 6

\* the canonical (rows, cols) table of the specification, non-tall / tall
CanonicalShape(n, tall) ==
  CASE n = 1 -> <<1, 1>>
    [] n = 2 -> IF tall THEN <<2, 1>> ELSE <<1, 2>>
    [] n = 3 -> IF tall THEN <<3, 1>> ELSE <<1, 3>>
    [] n = 4 -> <<2, 2>>
    [] n = 5 -> <<2, 3>>
    [] n = 6 -> IF tall THEN <<3, 2>> ELSE <<2, 3>>
    [] n \in {7, 8} -> IF tall THEN <<4, 2>> ELSE <<2, 4>>
    [] n = 9 -> <<3, 3>>

\* C4: the (rows, cols) shape chosen for an image count follows the
\* canonical table, and the tall format never uses more columns than the
\* non-tall formats for the same count.
C4_CanonicalTable ==
  (pc = "layout_done" /\ imageCount \in 1..9) =>
     /\ <<layout.rows, layout.cols>> = CanonicalShape(imageCount, formatKey = "stories")
     /\ \A f \in FormatSet \ {"stories"} :
           gridShape(imageCount, "stories").cols <= gridShape(imageCount, f).cols

(***************************************************************************)
(* SpecFooter: buildFooterOverlay called with any stats whose completed    *)
(* count is at most the total, as the share route computes them.           *)
(***************************************************************************)
InitFooter ==
  /\ pc = "footer_call"
  /\ formatKey \in FormatSet
  /\ \E t \in 0..MaxTotal : \E c \in 0..t : stats = [completed |-> c, total |-> t]
  /\ destinationNames = <<>>
  /\ footer = <<>>
  /\ LayoutIdle
  /\ OverlayIdle
  /\ ShareIdle
  /\ RouteIdle

CallBuildFooterOverlay ==
  /\ pc = "footer_call"
  /\ pc' = "footer_done"
  /\ footer' = buildFooterOverlay(formatKey, stats, destinationNames)
  /\ UNCHANGED <<formatKey, stats, destinationNames, layoutVars, overlayVars, shareVars,
                 routeVars>>

NextFooter == CallBuildFooterOverlay

SpecFooter == InitFooter /\ [][NextFooter]_vars

\* the completion rate written in the stats line of the returned footer
ShownRate == footer[1].overlay.text.escaped.percentage

\* round(100 * c / t), halves upwards, in exact integer arithmetic
ExactRate(c, t) == (200 * c + t) \div (2 * t)

\* C6: the rate shown in the stats line equals round(100 * completed / total)
\* for every total > 0 and 0 <= completed <= total, and 0 when total = 0.
C6_CompletionRate ==
  pc = "footer_done" =>
     ShownRate = IF stats.total > 0 THEN ExactRate(stats.completed, stats.total) ELSE 0

\* the documented example and the guarded case, which the code gets right
C6_Examples ==
  pc = "footer_done" =>
     /\ (stats.completed = 3 /\ stats.total = 14) => ShownRate = 21
     /\ stats.total = 0 => ShownRate = 0
     /\ (stats.completed = 1 /\ stats.total = 8) => ShownRate = 13
     /\ (stats.completed = 23 /\ stats.total = 40) => ShownRate = 57
     /\ (stats.total # 40 \/ stats.completed # 23) =>
           (stats.total > 0 => ShownRate = ExactRate(stats.completed, stats.total))

(***************************************************************************)
(* SpecOverlay: buildOverlayTransformations called with any number of      *)
(* images, the positions of any planner call, and any destination names.   *)
(***************************************************************************)
\* sample image public ids and destination names
Digit == <<"0", "1", "2", "3", "4", "5", "6", "7", "8", "9">>

Decimal(i) == <<Digit[(i \div 10) + 1], Digit[(i % 10) + 1]>>

SampleImage(i) == <<"i", "m", "g", "_">> \o Decimal(i)

SampleName(i) == <<"d", "e", "s", "t">> \o Decimal(i)

\* sample stats: the documented example and an empty list
SampleStats == {[completed |-> 3, total |-> 14], NoStats}

InitOverlay ==
  /\ pc = "overlay_call"
  /\ formatKey \in FormatSet
  /\ \E n \in 0..MaxImages : images = [i \in 1..n |-> SampleImage(i)]
  /\ \E k \in 0..MaxImages : positions = calculateGridLayout(k, formatKey)
  /\ stats \in SampleStats
  /\ \E d \in 0..MaxNames : destinationNames = [i \in 1..d |-> SampleName(i)]
  /\ allOverlays = <<>>
  /\ LayoutIdle
  /\ FooterIdle
  /\ ShareIdle
  /\ RouteIdle

CallBuildOverlayTransformations ==
  /\ pc = "overlay_call"
  /\ pc' = "overlay_done"
  /\ allOverlays' = buildOverlayTransformations(images, positions, formatKey, stats,
                                                 destinationNames)
  /\ UNCHANGED <<formatKey, images, positions, stats, destinationNames, footer,
                 layoutVars, shareVars, routeVars>>

NextOverlay == CallBuildOverlayTransformations

SpecOverlay == InitOverlay /\ [][NextOverlay]_vars

\* what a descriptor that opens a layer carries: an image, the logo, or one
\* of the footer texts
LayerKind(d) ==
  IF "color" \in DOMAIN d
  THEN (IF "escaped" \in DOMAIN d.overlay.text
        THEN d.overlay.text.escaped.kind
        ELSE d.overlay.text.kind)
  ELSE IF d.crop = "fill" THEN "image" ELSE "logo"

\* the layer descriptor i of a sequence belongs to: a layer_apply descriptor
\* belongs to the layer opened just before it
LayerOf(seq, i) ==
  IF "overlay" \in DOMAIN seq[i] THEN LayerKind(seq[i]) ELSE LayerKind(seq[i - 1])

\* 1 for image descriptors, 2 for the logo, 3 for the footer texts
Stage(kind) ==
  CASE kind = "image" -> 1
    [] kind = "logo" -> 2
    [] kind \in {"stats", "destinations", "cta"} -> 3

\* C5: in the sequence returned by buildOverlayTransformations all image
\* descriptors come before the logo descriptor, and the logo descriptor comes
\* before every footer descriptor (stats text, destination line, call to
\* action).
C5_StackingOrder ==
  pc = "overlay_done" =>
     /\ \E i \in DOMAIN allOverlays : LayerOf(allOverlays, i) = "logo"
     /\ \E i \in DOMAIN allOverlays : LayerOf(allOverlays, i) = "stats"
     /\ \E i \in DOMAIN allOverlays : LayerOf(allOverlays, i) = "cta"
     /\ \A i, j \in DOMAIN allOverlays :
           i < j => Stage(LayerOf(allOverlays, i)) <= Stage(LayerOf(allOverlays, j))

\* a composition holding several images and all three footer texts
C5_Witness ==
  /\ pc = "overlay_done"
  /\ Cardinality({i \in DOMAIN allOverlays : LayerOf(allOverlays, i) = "image"}) >= 4
  /\ \E i \in DOMAIN allOverlays : LayerOf(allOverlays, i) = "destinations"

(***************************************************************************)
(* Spec: one call of generateShareData.  The callbacks of the map run to   *)
(* their await in one step (JavaScript runs them without interruption);    *)
(* the render service then answers the four calls in any order, and the    *)
(* function resumes when Promise.allSettled has all four results.          *)
(***************************************************************************)
\* sample items: a valid id with a destination, a valid id to trim, no id,
\* an id with a character outside the allowed set, an id of white space
ItemSamples ==
  { [cloudinary_public_id |-> Str(<<"a", "/", "1">>),
     destination_name |-> Str(<<"P", "a", "r", "i", "s">>)],
    [cloudinary_public_id |-> Str(<<" ", "b", "_", "2", " ">>),
     destination_name |-> Null],
    [cloudinary_public_id |-> Null,
     destination_name |-> Str(<<"R", "o", "m", "e">>)],
    [cloudinary_public_id |-> Str(<<"c", " ", "3">>),
     destination_name |-> Null],
    [cloudinary_public_id |-> Str(<<" ", " ">>),
     destination_name |-> Str(<<"O", "s", "l", "o">>)] }

SeqsUpTo(S, n) == UNION {[1..k -> S] : k \in 0..n}

Init ==
  /\ pc = "share_call"
  /\ bucketListItems \in SeqsUpTo(ItemSamples, MaxItems)
  /\ stats \in SampleStats
  /\ imagesToUse = <<>>
  /\ destinationsToUse = <<>>
  /\ explicitCalls = <<>>
  /\ rendered = [f \in FormatSet |-> "none"]
  /\ arrival = <<>>
  /\ job = [f \in FormatSet |-> [state |-> "unstarted"]]
  /\ outcome = NoOutcome
  /\ formatKey = "all"
  /\ destinationNames = <<>>
  /\ LayoutIdle
  /\ FooterIdle
  /\ OverlayIdle
  /\ RouteIdle

\* lines 321-441: validation, the guard, and the four calls up to their await
BeginGenerateShareData ==
  /\ pc = "share_call"
  /\ imagesToUse' = validatedImages(bucketListItems)
  /\ destinationsToUse' = validatedDestinations(bucketListItems)
  /\ explicitCalls' = submittedCalls(imagesToUse', stats, destinationsToUse')
  /\ IF Len(imagesToUse') = 0
     THEN /\ outcome' = [kind |-> "threw", error |-> NoValidImagesError]
          /\ pc' = "share_done"
          /\ UNCHANGED job
     ELSE /\ job' = [f \in FormatSet |-> [state |-> "pending"]]
          /\ pc' = "share_await"
          /\ UNCHANGED outcome
  /\ UNCHANGED <<bucketListItems, rendered, arrival, stats, formatKey,
                 destinationNames, layoutVars, footer, overlayVars, routeVars>>

\* the render service answers the call of format f and the callback of f
\* runs to its end (lines 414-440)
RenderSettles(f, response) ==
  /\ pc = "share_await"
  /\ job[f].state = "pending"
  /\ rendered' = [rendered EXCEPT ![f] = response]
  /\ arrival' = Append(arrival, f)
  /\ job' = [job EXCEPT ![f] = [state |-> "fulfilled", value |-> jobValue(f, response)]]
  /\ UNCHANGED <<pc, bucketListItems, imagesToUse, destinationsToUse, explicitCalls,
                 outcome, stats, formatKey, destinationNames, layoutVars, footer,
                 overlayVars, routeVars>>

\* Promise.all over callbacks that rethrow: the call ends at the first failed
\* render, whatever its siblings do
AllSettled_firstRejection ==
  /\ pc = "share_await"
  /\ \/ \A f \in FormatSet : job[f].state = "fulfilled"
     \/ \E f \in FormatSet : job[f].state = "fulfilled" /\ ~job[f].value.success
  /\ outcome' = IF \E f \in FormatSet : job[f].state = "fulfilled" /\ ~job[f].value.success
                THEN [kind |-> "threw", error |-> "uploadError.message"]
                ELSE aggregate(job, stats)
  /\ pc' = "share_done"
  /\ UNCHANGED <<bucketListItems, imagesToUse, destinationsToUse, explicitCalls,
                 rendered, arrival, job, stats, formatKey, destinationNames,
                 layoutVars, footer, overlayVars, routeVars>>

\* Promise.allSettled resolves and generateShareData runs to its end
\* (lines 443-472)
AllSettled ==
  /\ pc = "share_await"
  /\ \A f \in FormatSet : job[f].state = "fulfilled"
  /\ outcome' = aggregate(job, stats)
  /\ pc' = "share_done"
  /\ UNCHANGED <<bucketListItems, imagesToUse, destinationsToUse, explicitCalls,
                 rendered, arrival, job, stats, formatKey, destinationNames,
                 layoutVars, footer, overlayVars, routeVars>>

Next ==
  \/ BeginGenerateShareData
  \/ \E f \in FormatSet : \E response \in Responses : RenderSettles(f, response)
  \/ AllSettled

Spec == Init /\ [][Next]_vars

\* the formats whose render succeeded, and those whose render failed
RenderOk == {f \in FormatSet : rendered[f] = "eager"}

RenderFailed == {f \in FormatSet : rendered[f] \in {"no_eager", "error"}}

\* the successful entries and the error entries of the returned result
SuccessEntries ==
  IF outcome.kind = "returned"
  THEN {f \in DOMAIN outcome.value.images : "imageUrl" \in DOMAIN outcome.value.images[f]}
  ELSE {}

ErrorEntries ==
  IF outcome.kind = "returned"
  THEN {f \in DOMAIN outcome.value.images : "error" \in DOMAIN outcome.value.images[f]}
       \cup (IF "errors" \in DOMAIN outcome.value
             THEN DOMAIN outcome.value.errors
             ELSE {})
  ELSE {}

\* C8: when the render fails for exactly one format and succeeds for the
\* other three, generateShareData does not raise and returns a result holding
\* 3 successful entries and 1 error entry, for the failed format.
C8_PartialFailure ==
  (pc = "share_done" /\ Cardinality(RenderFailed) = 1 /\ Cardinality(RenderOk) = 3) =>
     /\ outcome.kind = "returned"
     /\ SuccessEntries = RenderOk
     /\ ErrorEntries = RenderFailed

\* what the code does in that case: no raise, the three successes, no entry
\* for the failed format
C8_FailedFormatAbsent ==
  (pc = "share_done" /\ Cardinality(RenderFailed) = 1 /\ Cardinality(RenderOk) = 3) =>
     /\ outcome.kind = "returned"
     /\ SuccessEntries = RenderOk
     /\ ErrorEntries = {}
     /\ DOMAIN outcome.value = {"success", "images", "stats"}

\* C9: when no item has a valid image reference, generateShareData fails
\* with the no-valid-images error, and no render call has been issued for any
\* format before that failure.
C9_NoValidImages ==
  /\ (pc # "share_call" /\ ~\E i \in DOMAIN bucketListItems : accepted(bucketListItems[i]))
        => /\ outcome = [kind |-> "threw", error |-> NoValidImagesError]
           /\ explicitCalls = <<>>
           /\ \A f \in FormatSet : rendered[f] = "none"
  /\ (outcome.kind = "threw" /\ outcome.error = NoValidImagesError)
        => explicitCalls = <<>>

\* a call with several items, none of them valid, has failed
C9_Witness ==
  /\ pc = "share_done"
  /\ Len(bucketListItems) >= 2
  /\ outcome = [kind |-> "threw", error |-> NoValidImagesError]

\* C10: given at least one valid image, generateShareData reports success if
\* and only if at least one format's render succeeded; when every render
\* failed it throws the all-formats-failed error.
C10_SuccessIffOneRendered ==
  (pc = "share_done" /\ \E i \in DOMAIN bucketListItems : accepted(bucketListItems[i])) =>
     /\ (outcome.kind = "returned") <=> (RenderOk # {})
     /\ outcome.kind = "returned" => outcome.value.success
     /\ RenderOk = {} => outcome = [kind |-> "threw", error |-> AllFormatsFailedError]

\* every render failed, in both ways a render can fail, and the call threw
C10_Witness ==
  /\ pc = "share_done"
  /\ RenderFailed = FormatSet
  /\ \E f \in FormatSet : rendered[f] = "error"
  /\ \E f \in FormatSet : rendered[f] = "no_eager"
  /\ outcome.kind = "threw"

\* C11: generateShareData reaches its outcome, return or raise, only after
\* every submitted render job has resolved; a failed job never ends the call
\* while a sibling job is still pending.
C11_OutcomeAfterAllResolved ==
  outcome.kind # "pending" =>
     /\ \A f \in FormatSet : job[f].state # "pending"
     /\ explicitCalls # <<>> =>
           \A f \in FormatSet : job[f].state = "fulfilled" /\ rendered[f] # "none"

\* the first answer to arrive was a failure, and the call ended with a result
\* after the three others had arrived
C11_Witness ==
  /\ pc = "share_done"
  /\ Len(arrival) = 4
  /\ arrival[1] \in RenderFailed
  /\ outcome.kind = "returned"

\* C12: the result of generateShareData depends only on which render jobs
\* succeeded, not on the order in which the four jobs completed: whatever the
\* order of arrival, the returned mapping holds exactly the entries of the
\* formats whose render succeeded.
C12_ArrivalOrderIrrelevant ==
  (pc = "share_done" /\ explicitCalls # <<>>) =>
     outcome =
       IF RenderOk = {}
       THEN [kind |-> "threw", error |-> AllFormatsFailedError]
       ELSE [kind |-> "returned",
             value |-> [success |-> TRUE,
                        images |-> [f \in RenderOk |->
                                      [imageUrl |-> <<"secure_url", f>>,
                                       width |-> SOCIAL_FORMATS[f].width,
                                       height |-> SOCIAL_FORMATS[f].height,
                                       format |-> SOCIAL_FORMATS[f].name]],
                        stats |-> stats]]

\* the answers arrived in the reverse of the submission order, a failed one
\* between two successful ones
C12_Witness ==
  /\ pc = "share_done"
  /\ arrival = <<FormatKeys[4], FormatKeys[3], FormatKeys[2], FormatKeys[1]>>
  /\ rendered[FormatKeys[4]] = "eager"
  /\ rendered[FormatKeys[3]] = "error"
  /\ rendered[FormatKeys[2]] = "eager"
  /\ outcome.kind = "returned"

(***************************************************************************)
(* SpecRoute: the share route reads the caller's bucket list, newest       *)
(* first, each row with its status and its activity's hero image if any,   *)
(* and selects the activities for generateShareData.                       *)
(***************************************************************************)
Statuses == {"planned", "in_progress", "completed"}

SampleRow(i, status, hasImage) ==
  [id |-> i, status |-> status,
   activity |-> [id |-> i, title |-> SampleName(i),
                 cloudinary_public_id |->
                   IF hasImage THEN Str(SampleImage(i)) ELSE Null]]

InitRoute ==
  /\ pc = "route_call"
  /\ \E n \in 0..MaxRows :
        \E st \in [1..n -> Statuses] : \E img \in [1..n -> BOOLEAN] :
           bucketList = [i \in 1..n |-> SampleRow(i, st[i], img[i])]
  /\ selectedActivities = <<>>
  /\ TokenIdle
  /\ stats = NoStats
  /\ formatKey = "all"
  /\ destinationNames = <<>>
  /\ LayoutIdle
  /\ FooterIdle
  /\ OverlayIdle
  /\ ShareIdle

\* lines 716-773: 400 for an empty list, else the selection and the stats
SelectForShare ==
  /\ pc = "route_call"
  /\ IF Len(bucketList) = 0
     THEN /\ pc' = "route_400"
          /\ UNCHANGED <<selectedActivities, stats>>
     ELSE /\ pc' = "route_selected"
          /\ selectedActivities' = selectActivities(bucketList)
          /\ stats' =
               LET completed == filterStatus(bucketList, {"completed"})
                   pending == filterStatus(bucketList, {"planned", "in_progress"})
               IN [total |-> Len(bucketList), completed |-> Len(completed),
                   pending |-> Len(pending),
                   completionRate |-> percentage(Len(completed), Len(bucketList))]
  /\ UNCHANGED <<bucketList, tokenVars, formatKey, destinationNames, layoutVars,
                 footer, overlayVars, shareVars>>

NextRoute == SelectForShare

SpecRoute == InitRoute /\ [][NextRoute]_vars

\* the place in the bucket list of the row whose activity has this title
OriginalIndex(title) ==
  CHOOSE i \in DOMAIN bucketList : bucketList[i].activity.title = title

\* C7: the order used for layout places every completed activity before
\* every planned or in_progress activity and preserves the original relative
\* order inside each group; [A:planned, B:completed, C:completed, D:planned]
\* gives [B, C, A, D].
C7_CompletedFirstStable ==
  pc = "route_selected" =>
     /\ Len(selectedActivities) = Min(Len(bucketList), SelectedMax)
     /\ \A i, j \in DOMAIN selectedActivities :
           i < j =>
              /\ ~(selectedActivities[i].status # "completed"
                   /\ selectedActivities[j].status = "completed")
              /\ ((selectedActivities[i].status = "completed")
                    = (selectedActivities[j].status = "completed"))
                 => OriginalIndex(selectedActivities[i].title)
                      < OriginalIndex(selectedActivities[j].title)
     /\ [i \in DOMAIN bucketList |-> bucketList[i].status]
           = <<"planned", "completed", "completed", "planned">>
        => [i \in DOMAIN selectedActivities |-> selectedActivities[i].title]
              = <<SampleName(2), SampleName(3), SampleName(1), SampleName(4)>>

\* the documented example has been selected
C7_Witness ==
  /\ pc = "route_selected"
  /\ [i \in DOMAIN bucketList |-> bucketList[i].status]
        = <<"planned", "completed", "completed", "planned">>
  /\ Len(selectedActivities) = 4

(***************************************************************************)
(* SpecShareSet: the share route for type 'all', from the bucket list it   *)
(* reads to the render calls generateShareData issues for it.              *)
(***************************************************************************)
\* a bucket list whose first `planned` rows are planned and the others
\* completed, each row with or without a hero image
InitShareSet ==
  /\ pc = "route_call"
  /\ \E n \in 0..MaxList :
        \E planned \in {0, n \div 2, n} : \E img \in [1..n -> BOOLEAN] :
           bucketList = [i \in 1..n |->
                           SampleRow(i, IF i <= planned THEN "planned" ELSE "completed",
                                     img[i])]
  /\ selectedActivities = <<>>
  /\ TokenIdle
  /\ stats = NoStats
  /\ formatKey = "all"
  /\ destinationNames = <<>>
  /\ LayoutIdle
  /\ FooterIdle
  /\ OverlayIdle
  /\ ShareIdle

\* part_001 lines 766-781: generateShareData(selectedActivities, stats, userId)
CallGenerateShareData ==
  /\ pc = "route_selected"
  /\ pc' = "share_call"
  /\ bucketListItems' = selectedActivities
  /\ UNCHANGED <<imagesToUse, destinationsToUse, explicitCalls, rendered, arrival,
                 job, outcome, stats, formatKey, destinationNames, layoutVars,
                 footer, overlayVars, routeVars>>

NextShareSet ==
  \/ SelectForShare
  \/ CallGenerateShareData
  \/ BeginGenerateShareData

SpecShareSet == InitShareSet /\ [][NextShareSet]_vars

\* a descriptor that opens an image layer
IsImageDescriptor(d) ==
  /\ "overlay" \in DOMAIN d
  /\ "crop" \in DOMAIN d
  /\ d.crop = "fill"

\* the public ids composited by one render call, in their order
ComposedImages(call) ==
  LET layers == SelectSeq(call.transformation, IsImageDescriptor)
  IN [i \in DOMAIN layers |-> layers[i].overlay]

\* the row carries a valid image reference
RowIsValid(row) ==
  accepted([cloudinary_public_id |-> row.activity.cloudinary_public_id])

RowIsCompleted(row) == row.status = "completed"

RowIsPending(row) == row.status \in {"planned", "in_progress"}

\* the valid image references of the whole bucket list, completed first
ValidCompletedFirst ==
  LET valid == SelectSeq(bucketList, RowIsValid)
      ordered == SelectSeq(valid, RowIsCompleted) \o SelectSeq(valid, RowIsPending)
  IN [i \in DOMAIN ordered |-> trim(ordered[i].activity.cloudinary_public_id.chars)]

\* C13: for each format, the images composited for a user's share set are
\* exactly the first min(maxImages, V) entries of the user's activities
\* filtered to those with a valid image reference and ordered completed
\* first, V being the number of valid activities; an activity without a valid
\* image never takes a slot from a valid one.
C13_TruncationAfterFilter ==
  pc \in {"share_await", "share_done"} =>
     IF Len(ValidCompletedFirst) = 0
     THEN explicitCalls = <<>>
     ELSE /\ Len(explicitCalls) = Len(FormatKeys)
          /\ \A i \in DOMAIN explicitCalls :
                ComposedImages(explicitCalls[i])
                  = slice0(ValidCompletedFirst,
                           SOCIAL_FORMATS[explicitCalls[i].formatKey].maxImages)

\* what the code composites: the valid ones among the first nine activities
\* of the completed-first order
C13_ValidAmongFirstNine ==
  pc \in {"share_await", "share_done"} =>
     LET ordered == SelectSeq(bucketList, RowIsCompleted)
                      \o SelectSeq(bucketList, RowIsPending)
         valid == SelectSeq(slice0(ordered, SelectedMax), RowIsValid)
         ids == [i \in DOMAIN valid |-> trim(valid[i].activity.cloudinary_public_id.chars)]
     IN IF Len(ids) = 0
        THEN explicitCalls = <<>>
        ELSE \A i \in DOMAIN explicitCalls :
                ComposedImages(explicitCalls[i])
                  = slice0(ids, SOCIAL_FORMATS[explicitCalls[i].formatKey].maxImages)

(***************************************************************************)
(* SpecSubmission: generateShareData from its call to its first await, the *)
(* validation of the items and the render calls issued for them.           *)
(***************************************************************************)
NextSubmission == BeginGenerateShareData

SpecSubmission == Init /\ [][NextSubmission]_vars

\* the characters the claim allows in an image reference
AllowListed == Letters \cup Digits \cup {"_", "-", "/", "."}

\* a sequence of characters that is not empty and is made of allowed ones
WellFormed(chars) ==
  /\ chars # <<>>
  /\ \A i \in DOMAIN chars : chars[i] \in AllowListed

\* the item's image reference is non-empty after trimming and well formed
ReferencePasses(item) ==
  /\ item.cloudinary_public_id.type = "string"
  /\ WellFormed(trim(item.cloudinary_public_id.chars))

\* C14: only image references that are non-empty after trimming and made
\* solely of letters, digits, underscore, hyphen, slash and dot reach layout
\* planning: every image composited in any format is the trimmed reference
\* of such an item, and the items failing the check contribute no image
\* descriptor and no rectangle.
C14_OnlyValidReferences ==
  /\ \A i \in DOMAIN imagesToUse :
        /\ WellFormed(imagesToUse[i])
        /\ \E k \in DOMAIN bucketListItems :
              /\ ReferencePasses(bucketListItems[k])
              /\ trim(bucketListItems[k].cloudinary_public_id.chars) = imagesToUse[i]
  /\ \A c \in DOMAIN explicitCalls :
        LET composed == ComposedImages(explicitCalls[c])
            passing == {k \in DOMAIN bucketListItems : ReferencePasses(bucketListItems[k])}
        IN /\ \A i \in DOMAIN composed : WellFormed(composed[i])
           /\ composed = slice0(imagesToUse, SOCIAL_FORMATS[explicitCalls[c].formatKey].maxImages)
           /\ Len(composed) <= Cardinality(passing)
           /\ Cardinality({i \in DOMAIN explicitCalls[c].transformation :
                             "flags" \in DOMAIN explicitCalls[c].transformation[i]
                             /\ explicitCalls[c].transformation[i].gravity = "north_west"})
                = Len(composed)

\* the render calls were issued for a list holding an item whose reference
\* has a forbidden character and an item whose reference passes
C14_Witness ==
  /\ pc = "share_await"
  /\ Len(explicitCalls) = 4
  /\ \E k \in DOMAIN bucketListItems :
        /\ bucketListItems[k].cloudinary_public_id.type = "string"
        /\ trim(bucketListItems[k].cloudinary_public_id.chars) # <<>>
        /\ ~ReferencePasses(bucketListItems[k])
  /\ \E k \in DOMAIN bucketListItems : ReferencePasses(bucketListItems[k])

\* C15: in every composition performed by generateShareData the rectangle
\* list and the image list handed to buildOverlayTransformations have equal
\* length, and the i-th image descriptor takes its width, height, x and y
\* from the i-th rectangle: no image is skipped for want of a rectangle.
C15_OneRectanglePerImage ==
  \A c \in DOMAIN explicitCalls :
     LET f == explicitCalls[c].formatKey
         given == composerArguments(f, imagesToUse)
         t == explicitCalls[c].transformation
     IN /\ Len(given.positions) = Len(given.images)
        /\ Len(ComposedImages(explicitCalls[c])) = Len(given.images)
        /\ \A i \in DOMAIN given.images :
              /\ t[2 * i].overlay = given.images[i]
              /\ t[2 * i].width = given.positions[i].width
              /\ t[2 * i].height = given.positions[i].height
              /\ t[(2 * i) + 1].flags = "layer_apply"
              /\ t[(2 * i) + 1].x = given.positions[i].x
              /\ t[(2 * i) + 1].y = given.positions[i].y

\* nine valid images were handed over: nine rectangles for the square
\* format, six for the others
C15_Witness ==
  /\ pc = "share_await"
  /\ Len(imagesToUse) = 9
  /\ Len(explicitCalls) = 4
  /\ Len(ComposedImages(explicitCalls[1])) = 9
  /\ Len(ComposedImages(explicitCalls[2])) = 6

\* the descriptors of a sequence that carry the destination-names text
DestinationLines(seq) ==
  {i \in DOMAIN seq : "overlay" \in DOMAIN seq[i] /\ LayerKind(seq[i]) = "destinations"}

\* C16: the footer holds a destination-names text line if and only if the
\* format has showDestinations and at least one name was supplied; the line
\* lists the first 5 names at most and carries the more-items mark exactly
\* when more than 5 names were supplied.
C16_DestinationLine ==
  pc = "overlay_done" =>
     /\ (DestinationLines(allOverlays) # {})
           <=> (SOCIAL_FORMATS[formatKey].showDestinations /\ Len(destinationNames) > 0)
     /\ Cardinality(DestinationLines(allOverlays)) <= 1
     /\ \A i \in DestinationLines(allOverlays) :
           LET line == allOverlays[i].overlay.text.escaped
           IN /\ Len(line.names) = Min(Len(destinationNames), 5)
              /\ \A k \in DOMAIN line.names : line.names[k] = destinationNames[k]
              /\ line.more <=> (Len(destinationNames) > 5)

\* six names were supplied to a format that shows destinations: five are
\* listed, with the mark
C16_Witness ==
  /\ pc = "overlay_done"
  /\ Len(destinationNames) = 6
  /\ \E i \in DestinationLines(allOverlays) :
        /\ Len(allOverlays[i].overlay.text.escaped.names) = 5
        /\ allOverlays[i].overlay.text.escaped.more

\* a descriptor drawing a band as wide as the canvas of format f and as high
\* as its footer, given as its own size or as the size of a rectangle overlay
IsFooterBand(d, f) ==
  \/ /\ "width" \in DOMAIN d
     /\ "height" \in DOMAIN d
     /\ d.width = SOCIAL_FORMATS[f].width
     /\ d.height = SOCIAL_FORMATS[f].footerHeight
  \/ /\ "overlay" \in DOMAIN d
     /\ "opacity" \in DOMAIN d
     /\ "crop" \notin DOMAIN d
     /\ d.overlay.width = SOCIAL_FORMATS[f].width
     /\ d.overlay.height = SOCIAL_FORMATS[f].footerHeight

\* C17: for every format the composed sequence holds a footer-band
\* descriptor as wide as the canvas and as high as the format's footerHeight,
\* after the logo descriptor and before the stats-line text descriptor.
C17_FooterBand ==
  pc = "overlay_done" =>
     \E b \in DOMAIN allOverlays :
        /\ IsFooterBand(allOverlays[b], formatKey)
        /\ \E l \in 1..(b - 1) : LayerOf(allOverlays, l) = "logo"
        /\ \A t \in DOMAIN allOverlays : LayerOf(allOverlays, t) = "stats" => b < t

\* what the code composes: no descriptor of any format is a footer band
C17_NoFooterBand ==
  pc = "overlay_done" =>
     \A b \in DOMAIN allOverlays : ~IsFooterBand(allOverlays[b], formatKey)

\* C18: calling the layout planner with a format key that is not in the
\* format table signals a configuration error identifying the unknown format;
\* it never returns rectangles or fails with an unrelated fault.
C18_UnknownFormat ==
  (pc # "layout_call" /\ formatKey \notin FormatSet) =>
     /\ pc = "layout_threw"
     /\ layout.error.name = "ConfigurationError"
     /\ "formatKey" \in DOMAIN layout.error
     /\ layout.error.formatKey = formatKey

\* what the code does with an unknown key: a TypeError about `format`
C18_TypeErrorInstead ==
  (pc # "layout_call" /\ formatKey \notin FormatSet) =>
     /\ pc = "layout_threw"
     /\ layout.error.name = "TypeError"
     /\ DOMAIN layout.error = {"name", "message"}

(***************************************************************************)
(* SpecTokens: POST /user/bucket-list/share/create, routes/auth-bucket.js, *)
(* with utils/shareTokenGenerator.js.  Each request draws a token, asks    *)
(* the table whether it is there, draws again if so, and inserts its row   *)
(* once the answer is no.  The requests run together: a step of one is the *)
(* code between two of its awaits, and the table serves one query at a     *)
(* time.  The table is outside the repository: it may or may not have a    *)
(* unique index on share_token.                                            *)
(***************************************************************************)
\* const MAX_GENERATION_ATTEMPTS = 10
MAX_GENERATION_ATTEMPTS == 10

\* the rows of share_links carrying a token
rowsWith(token) == {i \in DOMAIN share_links : share_links[i].share_token = token}

\* tokenExists answering for the table as it is: .single() gives its row when
\* exactly one matches and the error PGRST116 when none or several do
tokenExists(token) == Cardinality(rowsWith(token)) = 1

\* a creation request that has drawn no token yet
NoToken == ""

NewRequest(at) ==
  [pc |-> at, attempt |-> 0, token |-> NoToken, checked |-> <<>>, error |-> "none"]

InitTokens ==
  /\ pc = "serving"
  /\ share_links = <<>>
  /\ uniqueIndex \in BOOLEAN
  /\ request = [r \in Requests |-> NewRequest("received")]
  /\ AccessIdle
  /\ ListIdle
  /\ bucketList = <<>>
  /\ selectedActivities = <<>>
  /\ stats = NoStats
  /\ formatKey = "all"
  /\ destinationNames = <<>>
  /\ LayoutIdle
  /\ FooterIdle
  /\ OverlayIdle
  /\ ShareIdle

TokensUnchanged ==
  UNCHANGED <<pc, bucketList, selectedActivities, stats, formatKey, destinationNames,
              layoutVars, footer, overlayVars, shareVars, accessVars, listVars>>

\* the route reaches generateUniqueShareToken, whose loop draws its first
\* token and sends the query of tokenExists (lines 79-83)
GenerateShareToken(r, token) ==
  /\ request[r].pc = "received"
  /\ request[r].attempt < MAX_GENERATION_ATTEMPTS
  /\ request' = [request EXCEPT ![r].pc = "checking", ![r].token = token,
                                ![r].attempt = 1]
  /\ UNCHANGED <<share_links, uniqueIndex>>
  /\ TokensUnchanged

\* the loop without its bound on attempts
TokenExistsAnswers_unbounded(r, token) ==
  /\ request[r].pc = "checking"
  /\ LET answer == IF tokenExists(request[r].token) THEN "exists" ELSE "absent"
         seen == Append(request[r].checked,
                        [token |-> request[r].token, answer |-> answer])
     IN  request' = [request EXCEPT ![r] =
           IF answer = "absent"
           THEN [@ EXCEPT !.pc = "inserting", !.checked = seen]
           ELSE [@ EXCEPT !.token = token, !.attempt = @ + 1, !.checked = seen]]
  /\ UNCHANGED <<share_links, uniqueIndex>>
  /\ TokensUnchanged

\* the table answers the query (lines 83-90): a free token is returned to the
\* route, which sends its insert (part_001 lines 997-1013); a taken one makes
\* the loop draw the next token and send its query, or throw once maxAttempts
\* tokens are spent (lines 79 and 97-100)
TokenExistsAnswers(r, token) ==
  /\ request[r].pc = "checking"
  /\ LET answer == IF tokenExists(request[r].token) THEN "exists" ELSE "absent"
         seen == Append(request[r].checked,
                        [token |-> request[r].token, answer |-> answer])
     IN  request' = [request EXCEPT ![r] =
           IF answer = "absent"
           THEN [@ EXCEPT !.pc = "inserting", !.checked = seen]
           ELSE IF request[r].attempt < MAX_GENERATION_ATTEMPTS
           THEN [@ EXCEPT !.token = token, !.attempt = @ + 1, !.checked = seen]
           ELSE [@ EXCEPT !.pc = "failed", !.checked = seen,
                          !.error = "could_not_generate"]]
  /\ UNCHANGED <<share_links, uniqueIndex>>
  /\ TokensUnchanged

\* the query fails with an error other than PGRST116: tokenExists throws it,
\* generateUniqueShareToken rethrows it, the route answers 500 (lines 56-58
\* and 91-94, part_001 lines 1040-1046)
TokenExistsFails(r) ==
  /\ request[r].pc = "checking"
  /\ request' = [request EXCEPT ![r].pc = "failed", ![r].error = "store_error",
                                ![r].checked = Append(@, [token |-> request[r].token,
                                                          answer |-> "error"])]
  /\ UNCHANGED <<share_links, uniqueIndex>>
  /\ TokensUnchanged

\* the table executes the insert (part_001 lines 1009-1018): a table with a
\* unique index refuses a token it already holds
InsertShareLink(r) ==
  /\ request[r].pc = "inserting"
  /\ IF uniqueIndex /\ rowsWith(request[r].token) # {}
     THEN /\ request' = [request EXCEPT ![r].pc = "failed",
                                        ![r].error = "insert_error"]
          /\ UNCHANGED share_links
     ELSE /\ request' = [request EXCEPT ![r].pc = "created"]
          /\ share_links' = Append(share_links, [share_token |-> request[r].token,
                                                 request |-> r])
  /\ UNCHANGED uniqueIndex
  /\ TokensUnchanged

NextTokens ==
  \/ \E r \in Requests : \E token \in Tokens : GenerateShareToken(r, token)
  \/ \E r \in Requests : \E token \in Tokens : TokenExistsAnswers(r, token)
  \/ \E r \in Requests : TokenExistsFails(r)
  \/ \E r \in Requests : InsertShareLink(r)

SpecTokens == InitTokens /\ [][NextTokens]_vars

\* C20: after any sequence or interleaving of share-link creation requests,
\* no two rows of share_links carry the same share_token.
C20_UniqueTokens ==
  \A i, j \in DOMAIN share_links :
     i # j => share_links[i].share_token # share_links[j].share_token

\* with a unique index on the table the rows do carry distinct tokens
C20_UniqueUnderIndex == uniqueIndex => C20_UniqueTokens

\* the requests to which generateUniqueShareToken has returned a token
TokenReturned(r) ==
  \/ request[r].pc \in {"inserting", "created"}
  \/ request[r].pc = "failed" /\ request[r].error = "insert_error"

\* every existence check of request r but its last reported the token taken
EarlierAllTaken(r) ==
  \A i \in 1..(Len(request[r].checked) - 1) : request[r].checked[i].answer = "exists"

\* C21: generateUniqueShareToken returns the first generated token whose
\* existence check reports it absent, performs at most maxAttempts existence
\* checks, throws the could-not-generate error when all maxAttempts generated
\* tokens were reported present, and rethrows a store error other than
\* not-found at once, without a further attempt.
C21_UniqueTokenContract ==
  \A r \in Requests :
     LET checked == request[r].checked
         n == Len(checked)
     IN  /\ n <= MAX_GENERATION_ATTEMPTS
         /\ request[r].attempt <= MAX_GENERATION_ATTEMPTS
         /\ TokenReturned(r) <=>
               /\ n > 0
               /\ checked[n].answer = "absent"
               /\ checked[n].token = request[r].token
               /\ EarlierAllTaken(r)
               /\ request[r].attempt = n
         /\ (request[r].pc = "failed" /\ request[r].error = "could_not_generate") <=>
               /\ n = MAX_GENERATION_ATTEMPTS
               /\ \A i \in 1..n : checked[i].answer = "exists"
         /\ (request[r].pc = "failed" /\ request[r].error = "store_error") <=>
               /\ n > 0
               /\ checked[n].answer = "error"
               /\ EarlierAllTaken(r)
               /\ request[r].attempt = n

\* one request has spent its ten attempts on taken tokens, another was given
\* a token after a taken one, a third way out is the store error
C21_Witness ==
  /\ \E r \in Requests : request[r].error = "could_not_generate"
  /\ \E r \in Requests : TokenReturned(r)

C21_RethrowWitness ==
  \E r \in Requests :
     /\ request[r].error = "store_error"
     /\ Len(request[r].checked) > 1

(***************************************************************************)
(* SpecAccess: GET /share/:token, routes/share.js, on links built by       *)
(* generateShareLinkData.  The requests run together: a step of one is the *)
(* code between two of its awaits.  The clock advances, and an operator of *)
(* the table may switch a link off; both are outside the repository.      *)
(***************************************************************************)
\* getExpirationDate(30), shareTokenGenerator.js line 140
EXPIRATION_DAYS == 30

\* getExpirationDate: the date daysFromNow days after the clock's date
getExpirationDate(at, daysFromNow) == at + daysFromNow

\* the record generateShareLinkData returns (lines 140-152); platform,
\* image_url and stats are carried through unread by the share page's checks
generateShareLinkData(token, userId, at) ==
  [share_token |-> token,
   user_id |-> userId,
   expires_at |-> getExpirationDate(at, EXPIRATION_DAYS),
   is_active |-> TRUE,
   views_count |-> 0,
   clicks_count |-> 0]

\* req.user.Id of the creation route (part_001 line 959): the user object of
\* supabase.auth.getUser has the property id, and no property Id
undefined == "undefined"

\* the callers whose id a link may carry
Users == {"user-1"}

\* the instants the clock takes: creation, the expiry date, the day after
Clock == {0, EXPIRATION_DAYS, EXPIRATION_DAYS + 1}

\* the alternatives of botPattern (line 1165)
botPattern ==
  {<<"b", "o", "t">>,
   <<"c", "r", "a", "w", "l", "e", "r">>,
   <<"s", "p", "i", "d", "e", "r">>,
   <<"f", "a", "c", "e", "b", "o", "o", "k">>,
   <<"t", "w", "i", "t", "t", "e", "r">>,
   <<"l", "i", "n", "k", "e", "d", "i", "n">>,
   <<"p", "i", "n", "t", "e", "r", "e", "s", "t">>,
   <<"w", "h", "a", "t", "s", "a", "p", "p">>,
   <<"t", "e", "l", "e", "g", "r", "a", "m">>,
   <<"s", "l", "a", "c", "k">>,
   <<"d", "i", "s", "c", "o", "r", "d", "b", "o", "t">>,
   <<"b", "i", "n", "g", "p", "r", "e", "v", "i", "e", "w">>,
   <<"g", "o", "o", "g", "l", "e", "b", "o", "t">>,
   <<"y", "a", "n", "d", "e", "x", "b", "o", "t">>,
   <<"b", "a", "i", "d", "u", "s", "p", "i", "d", "e", "r">>,
   <<"t", "w", "i", "t", "t", "e", "r", "b", "o", "t">>,
   <<"f", "a", "c", "e", "b", "o", "o", "k", "e", "x", "t", "e", "r", "n", "a", "l", "h", "i", "t">>,
   <<"l", "i", "n", "k", "e", "d", "i", "n", "b", "o", "t">>,
   <<"s", "l", "a", "c", "k", "b", "o", "t">>}

\* the lower-case letter of each upper-case one
lowerCase ==
   "A" :> "a" @@ "B" :> "b" @@ "C" :> "c" @@ "D" :> "d" @@ "E" :> "e" @@ "F" :> "f" @@
   "G" :> "g" @@ "H" :> "h" @@ "I" :> "i" @@ "J" :> "j" @@ "K" :> "k" @@ "L" :> "l" @@
   "M" :> "m" @@ "N" :> "n" @@ "O" :> "o" @@ "P" :> "p" @@ "Q" :> "q" @@ "R" :> "r" @@
   "S" :> "s" @@ "T" :> "t" @@ "U" :> "u" @@ "V" :> "v" @@ "W" :> "w" @@ "X" :> "x" @@
   "Y" :> "y" @@ "Z" :> "z"

\* the flag i of botPattern
toLowerCase(c) == IF c \in DOMAIN lowerCase THEN lowerCase[c] ELSE c

\* botPattern.test(userAgent): some alternative occurs in the text, letter
\* case apart
test(pattern, text) ==
  \E word \in pattern : \E at \in 0..(Len(text) - Len(word)) :
     \A k \in 1..Len(word) : toLowerCase(text[at + k]) = word[k]

\* isBot (lines 1162-1174); the empty text stands for a missing header too
\* (line 1358)
isBot(userAgent) ==
  IF userAgent = <<>> THEN FALSE ELSE test(botPattern, userAgent)

\* User-Agent headers of the requests
UserAgents ==
  {<<>>,
   <<"M", "o", "z", "i", "l", "l", "a", "/", "5", ".", "0">>,
   <<"T", "w", "i", "t", "t", "e", "r", "b", "o", "t", "/", "1", ".", "0">>,
   <<"W", "h", "a", "t", "s", "A", "p", "p", "/", "2", ".", "2", "3">>,
   <<"c", "u", "r", "l", "/", "8", ".", "4">>}

InitAccess ==
  /\ pc = "serving"
  /\ now = 0
  /\ user_profiles = Users
  /\ access = [r \in Visitors |-> NoAccess]
  /\ accessLog = NoAccessLog
  /\ share_links = <<>>
  /\ uniqueIndex = TRUE
  /\ request = [r \in Requests |-> NewRequest("idle")]
  /\ ListIdle
  /\ bucketList = <<>>
  /\ selectedActivities = <<>>
  /\ stats = NoStats
  /\ formatKey = "all"
  /\ destinationNames = <<>>
  /\ LayoutIdle
  /\ FooterIdle
  /\ OverlayIdle
  /\ ShareIdle

AccessUnchanged ==
  UNCHANGED <<pc, bucketList, selectedActivities, stats, formatKey, destinationNames,
              layoutVars, footer, overlayVars, shareVars, uniqueIndex, request,
              listVars>>

\* a creation request that meets no other: the row generateShareLinkData
\* builds is inserted with a free token (part_001 lines 998-1013); the table
\* numbers its rows.  Links are created on the clock's first day: a later one
\* would not reach its expiry date within Clock.
CreateShareLink(token, userId) ==
  /\ rowsWith(token) = {}
  /\ now = 0
  /\ share_links' = Append(share_links,
                           [id |-> Len(share_links) + 1] @@
                           generateShareLinkData(token, userId, now))
  /\ UNCHANGED accessVars
  /\ AccessUnchanged

\* time passes
Tick(date) ==
  /\ date > now
  /\ now' = date
  /\ UNCHANGED <<share_links, user_profiles, access, accessLog>>
  /\ AccessUnchanged

\* an operator of the table switches a link off
Deactivate(i) ==
  /\ share_links[i].is_active
  /\ share_links' = [share_links EXCEPT ![i].is_active = FALSE]
  /\ UNCHANGED accessVars
  /\ AccessUnchanged

\* the handler starts: isBot, then the select on share_links is sent (lines
\* 1356-1371)
ReceiveAccess(r, token, userAgent) ==
  /\ access[r].pc \in {"idle", "done"}
  /\ \A earlier \in Visitors : earlier < r => access[earlier].pc \notin {"idle", "done"}
  /\ accessLog.begun < MaxAccesses
  /\ access' = [access EXCEPT ![r] = [NoAccess EXCEPT !.pc = "lookup",
                                                      !.token = token,
                                                      !.bot = isBot(userAgent)]]
  /\ accessLog' = [accessLog EXCEPT !.begun = @ + 1]
  /\ UNCHANGED <<share_links, now, user_profiles>>
  /\ AccessUnchanged

\* the table answers the select: .single() gives the row when exactly one
\* carries the token, an error otherwise, and the handler answers 404 or
\* sends the select on user_profiles (lines 1367-1386)
LookupAnswers(r) ==
  /\ access[r].pc = "lookup"
  /\ LET rows == rowsWith(access[r].token)
     IN  access' = [access EXCEPT ![r] =
           IF Cardinality(rows) = 1
           THEN [@ EXCEPT !.pc = "profile",
                          !.shareLink = share_links[CHOOSE i \in rows : TRUE]]
           ELSE Answered(404)]
  /\ UNCHANGED <<share_links, now, user_profiles, accessLog>>
  /\ AccessUnchanged

\* the handler's answer once the profile query is back (lines 1388-1424):
\* without a profile it assigns to the constant userProfile, which throws a
\* TypeError answered 500 by the catch (lines 1446-1448); with one it reads
\* the clock, answers 410 for a link switched off or past its date, and
\* otherwise sends the update
ProfileAnswers(r) ==
  /\ access[r].pc = "profile"
  /\ access' = [access EXCEPT ![r] =
       IF access[r].shareLink.user_id \notin user_profiles
       THEN Answered(500)
       ELSE IF ~access[r].shareLink.is_active \/ now > access[r].shareLink.expires_at
       THEN Answered(410)
       ELSE [@ EXCEPT !.pc = "updating"]]
  /\ UNCHANGED <<share_links, now, user_profiles, accessLog>>
  /\ AccessUnchanged

\* updateData of lines 1410-1419, as the columns it sets
updateData(shareLink, isBotRequest) ==
  IF isBotRequest
  THEN [views_count |-> shareLink.views_count + 1]
  ELSE [views_count |-> shareLink.views_count + 1,
        clicks_count |-> shareLink.clicks_count + 1]

\* the columns of a row after .update(data)
updated(row, data) ==
  [column \in DOMAIN row |-> IF column \in DOMAIN data THEN data[column] ELSE row[column]]

\* the table executes .update(updateData).eq('id', shareLink.id) and the
\* handler sends the share page (lines 1421-1444)
UpdateExecutes(r) ==
  /\ access[r].pc = "updating"
  /\ share_links' =
       [i \in DOMAIN share_links |->
          IF share_links[i].id = access[r].shareLink.id
          THEN updated(share_links[i], updateData(access[r].shareLink, access[r].bot))
          ELSE share_links[i]]
  /\ access' = [access EXCEPT ![r] = Answered(200)]
  /\ accessLog' =
       [accessLog EXCEPT !.pages[access[r].token] = @ + 1,
                         !.clicks[access[r].token] =
                            IF access[r].bot THEN @ ELSE @ + 1]
  /\ UNCHANGED <<now, user_profiles>>
  /\ AccessUnchanged

NextAccess ==
  \/ \E token \in Tokens : \E userId \in Users \cup {undefined} :
        CreateShareLink(token, userId)
  \/ \E date \in Clock : Tick(date)
  \/ \E i \in DOMAIN share_links : Deactivate(i)
  \/ \E r \in Visitors : \E token \in Tokens : \E userAgent \in UserAgents :
        ReceiveAccess(r, token, userAgent)
  \/ \E r \in Visitors : LookupAnswers(r)
  \/ \E r \in Visitors : ProfileAnswers(r)
  \/ \E r \in Visitors : UpdateExecutes(r)

SpecAccess == InitAccess /\ [][NextAccess]_vars

\* the test of line 1404
Expired(shareLink, date) == ~shareLink.is_active \/ date > shareLink.expires_at

\* the step of request r that leaves position `at`
Leaves(r, at) == access[r].pc = at /\ access'[r] # access[r]

\* the answers the share page owes, for the links whose owner passes `known`
ShareResponses(known(_)) ==
  \A r \in Visitors :
     /\ Leaves(r, "lookup") =>
          IF rowsWith(access[r].token) = {}
          THEN access'[r] = Answered(404)
          ELSE access'[r].pc = "profile"
     /\ (Leaves(r, "profile") /\ known(access[r].shareLink.user_id)) =>
          IF Expired(access[r].shareLink, now)
          THEN access'[r] = Answered(410)
          ELSE access'[r].pc = "updating"
     /\ Leaves(r, "updating") => access'[r] = Answered(200)

\* the rows a step inserts are active and expire 30 days after the step
CreatedLinks ==
  \A i \in DOMAIN share_links' \ DOMAIN share_links :
     /\ share_links'[i].is_active
     /\ share_links'[i].expires_at = now + 30

AnyOwner(userId) == TRUE

HasProfile(userId) == userId \in user_profiles

\* C22: GET /share/:token answers 404 when no share link has the token, 410
\* when the link exists but is inactive or its expires_at has passed, and 200
\* with the share page otherwise; a link created by generateShareLinkData is
\* active and expires 30 days after creation.
C22_ShareResponses == [][ShareResponses(AnyOwner) /\ CreatedLinks]_vars

\* the same answers, for the links whose owner has a row in user_profiles
C22_ResponsesWithProfile == [][ShareResponses(HasProfile) /\ CreatedLinks]_vars

\* a link whose owner has no profile is answered 500, valid or not
C22_NoProfile ==
  [][\A r \in Visitors :
       (Leaves(r, "profile") /\ ~HasProfile(access[r].shareLink.user_id)) =>
          access'[r] = Answered(500)]_vars

\* the row of share_links that request r read
ReadRow(r) == CHOOSE i \in DOMAIN share_links : share_links[i].id = access[r].shareLink.id

\* the step answers request r
Answers(r, status) == access[r].pc # "done" /\ access'[r] = Answered(status)

\* C23: each access to GET /share/:token answered 200 raises the link's
\* views_count by exactly 1, and its clicks_count by exactly 1 when the
\* User-Agent is not a bot and by 0 when it is; an access answered 404 or 410
\* changes no row of share_links.
C23_CountsPerAccess ==
  [][\A r \in Visitors :
       /\ Answers(r, 200) =>
            LET i == ReadRow(r)
            IN  /\ share_links'[i].views_count = share_links[i].views_count + 1
                /\ share_links'[i].clicks_count =
                     share_links[i].clicks_count + (IF access[r].bot THEN 0 ELSE 1)
       /\ (Answers(r, 404) \/ Answers(r, 410)) => share_links' = share_links]_vars

\* what an access does write: the counters it read plus one, on its own row,
\* and nothing when it is answered 404, 410 or 500
C23_WritesWhatItRead ==
  [][\A r \in Visitors :
       /\ Answers(r, 200) =>
            LET i == ReadRow(r)
            IN  /\ share_links'[i].views_count = access[r].shareLink.views_count + 1
                /\ share_links'[i].clicks_count =
                     IF access[r].bot THEN share_links[i].clicks_count
                     ELSE access[r].shareLink.clicks_count + 1
                /\ \A j \in DOMAIN share_links : j # i => share_links'[j] = share_links[j]
       /\ (Answers(r, 404) \/ Answers(r, 410) \/ Answers(r, 500)) =>
            share_links' = share_links]_vars

\* no share-page request is between its select and its answer
Quiet == \A r \in Visitors : access[r].pc \in {"idle", "done"}

\* C24: no view is lost under concurrency: once N accesses to a link have
\* been answered 200, in any interleaving, its views_count is its initial
\* value, 0, plus N.
C24_NoViewLost ==
  Quiet => \A i \in DOMAIN share_links :
              share_links[i].views_count = accessLog.pages[share_links[i].share_token]

\* the count never exceeds the pages served
C24_AtMostServed ==
  \A i \in DOMAIN share_links :
     share_links[i].views_count <= accessLog.pages[share_links[i].share_token]

\* C25: in every reachable state each share link's clicks_count is at most
\* its views_count, from the 0 / 0 of its creation on and under any
\* interleaving of bot and non-bot accesses.
C25_ClicksAtMostViews ==
  \A i \in DOMAIN share_links :
     share_links[i].clicks_count <= share_links[i].views_count

(***************************************************************************)
(* SpecBucketList: the bucket-list routes of routes/auth-bucket.js (add,   *)
(* status update, delete) on the table user_bucket_lists, and the handler  *)
(* of api/user/bucket-list/[id]/status.js on the table user_bucket_list.   *)
(* The requests run together: a step of one is the code between two of its *)
(* awaits, and a table serves one query at a time.  The tables are outside *)
(* the repository: user_bucket_lists may or may not have a unique index on *)
(* (user_id, activity_id).                                                 *)
(***************************************************************************)
\* the callers authenticateToken and verifyToken let in
BucketUsers == {"user-1", "user-2"}

\* the ids of the rows of the activities table
Activities == {"activity-1"}

\* activityId of the bodies of the add requests: none, known, unknown
ActivityIds == {""} \cup Activities \cup {"activity-9"}

\* const validStatuses (part_001 line 446, status.js line 45)
validStatuses == {"planned", "in_progress", "completed"}

\* status of the bodies of the status requests: valid ones and another
RequestStatuses == validStatuses \cup {"done"}

\* a date column holding a day of the clock
Date(day) == [type |-> "date", day |-> day]

\* completion_date of the bodies of the status requests: none, or a day
ClientDates == {Null, Date(1)}

\* the ids a request may name
ItemIds == {1, 2}

\* a deleted row of user_bucket_lists; ids are not given twice
Gone == [user_id |-> "", activity_id |-> "", status |-> "",
         completion_date |-> Null, live |-> FALSE]

\* the rows of user_bucket_list, which no route of the repository inserts
SampleList ==
  <<[user_id |-> "user-1", activity_id |-> "activity-1", status |-> "planned",
     completed_date |-> Null]>>

\* the row of lines 399-407; completion_date is not given and starts null
insertedRow(user, activity) ==
  [user_id |-> user, activity_id |-> activity, status |-> "planned",
   completion_date |-> Null, live |-> TRUE]

\* the run starts with an item user-1 has added
InitBucketList ==
  /\ pc = "serving"
  /\ uniqueIndex \in BOOLEAN
  /\ user_bucket_lists = <<insertedRow("user-1", "activity-1")>>
  /\ user_bucket_list = SampleList
  /\ calling = [c \in Callers |-> NoCall]
  /\ reply = NoReply
  /\ AccessIdle
  /\ share_links = <<>>
  /\ request = [r \in Requests |-> NewRequest("idle")]
  /\ bucketList = <<>>
  /\ selectedActivities = <<>>
  /\ stats = NoStats
  /\ formatKey = "all"
  /\ destinationNames = <<>>
  /\ LayoutIdle
  /\ FooterIdle
  /\ OverlayIdle
  /\ ShareIdle

ListUnchanged ==
  UNCHANGED <<pc, bucketList, selectedActivities, stats, formatKey, destinationNames,
              layoutVars, footer, overlayVars, shareVars, uniqueIndex, request,
              share_links, accessVars>>

\* a request may arrive: the run has calls left
MayArrive ==
  reply.n + Cardinality({c \in Callers : calling[c].pc # "idle"}) < MaxCalls

\* the request takes the first free place
Free(c) ==
  /\ calling[c].pc = "idle"
  /\ \A earlier \in Callers : earlier < c => calling[earlier].pc # "idle"

\* res.status(code).json(...) of a route to a caller about an item
Reply(route, user, item, code) ==
  [n |-> reply.n + 1, route |-> route, user |-> user, item |-> item, code |-> code]

\* the answer to the request in place c, which is left
Answer(c, route, code) ==
  /\ reply' = Reply(route, calling[c].user, calling[c].item, code)
  /\ calling' = [calling EXCEPT ![c] = NoCall]

\* the live rows of user_bucket_lists of a user with an activity
rowsOf(user, activity) ==
  {i \in DOMAIN user_bucket_lists :
     /\ user_bucket_lists[i].live
     /\ user_bucket_lists[i].user_id = user
     /\ user_bucket_lists[i].activity_id = activity}

\* the filter on id alone
rowsMatching_anyOwner(id, user) ==
  {i \in DOMAIN user_bucket_lists : i = id /\ user_bucket_lists[i].live}

\* the live rows matched by .eq('id', id).eq('user_id', user)
rowsMatching(id, user) ==
  {i \in DOMAIN user_bucket_lists :
     /\ i = id
     /\ user_bucket_lists[i].live
     /\ user_bucket_lists[i].user_id = user}

\* POST /user/bucket-list/add starts (part_001 lines 367-379): 400 without an
\* activityId, else the select on activities is sent
AddReceives(c, user, activityId) ==
  /\ MayArrive
  /\ Free(c)
  /\ IF activityId = ""
     THEN /\ reply' = Reply("add", user, 0, 400)
          /\ UNCHANGED calling
     ELSE /\ calling' = [calling EXCEPT ![c] = [NoCall EXCEPT !.pc = "activity",
                                                             !.user = user,
                                                             !.activity = activityId]]
          /\ UNCHANGED reply
  /\ UNCHANGED <<user_bucket_lists, user_bucket_list>>
  /\ ListUnchanged

\* the activity is looked up (lines 375-390): 404 when there is none, else the
\* select on user_bucket_lists is sent
AddActivityAnswers(c) ==
  /\ calling[c].pc = "activity"
  /\ IF calling[c].activity \in Activities
     THEN /\ calling' = [calling EXCEPT ![c].pc = "existing"]
          /\ UNCHANGED reply
     ELSE Answer(c, "add", 404)
  /\ UNCHANGED <<user_bucket_lists, user_bucket_list>>
  /\ ListUnchanged

\* the table answers whether the caller has the activity (lines 385-422):
\* .single() gives a row when exactly one matches; 409 with a row, else the
\* insert is sent
AddExistingAnswers(c) ==
  /\ calling[c].pc = "existing"
  /\ IF Cardinality(rowsOf(calling[c].user, calling[c].activity)) = 1
     THEN Answer(c, "add", 409)
     ELSE /\ calling' = [calling EXCEPT ![c].pc = "insert"]
          /\ UNCHANGED reply
  /\ UNCHANGED <<user_bucket_lists, user_bucket_list>>
  /\ ListUnchanged

\* the table executes the insert (lines 396-432): 201, or the 500 of the
\* catch when a unique index refuses the row
AddInsertExecutes(c) ==
  /\ calling[c].pc = "insert"
  /\ IF uniqueIndex /\ rowsOf(calling[c].user, calling[c].activity) # {}
     THEN /\ Answer(c, "add", 500)
          /\ UNCHANGED user_bucket_lists
     ELSE /\ Answer(c, "add", 201)
          /\ user_bucket_lists' =
               Append(user_bucket_lists,
                      insertedRow(calling[c].user, calling[c].activity))
  /\ UNCHANGED user_bucket_list
  /\ ListUnchanged

\* updateData of the route (part_001 lines 453-464), as the columns it sets;
\* notes, rating and updated_at are left out
routeUpdateData(status, completion_date) ==
  IF status = "completed"
  THEN [status |-> status,
        completion_date |-> IF completion_date # Null THEN completion_date
                            ELSE Date(now)]
  ELSE [status |-> status]

\* PUT /user/bucket-list/:id/status (part_001 lines 441-503): 400 for a status
\* that is not valid; else one update filtered on id and user_id, 404 when it
\* matches no row
PutStatus(user, id, status, completion_date) ==
  /\ MayArrive
  /\ IF status \notin validStatuses
     THEN /\ reply' = Reply("put", user, id, 400)
          /\ UNCHANGED user_bucket_lists
     ELSE IF rowsMatching(id, user) = {}
     THEN /\ reply' = Reply("put", user, id, 404)
          /\ UNCHANGED user_bucket_lists
     ELSE /\ reply' = Reply("put", user, id, 200)
          /\ user_bucket_lists' =
               [user_bucket_lists EXCEPT
                  ![id] = updated(@, routeUpdateData(status, completion_date))]
  /\ UNCHANGED <<user_bucket_list, calling>>
  /\ ListUnchanged

\* DELETE /user/bucket-list/:id (part_001 lines 506-546): one delete filtered
\* on id and user_id, 404 when it matches no row
DeleteItem(user, id) ==
  /\ MayArrive
  /\ IF rowsMatching(id, user) = {}
     THEN /\ reply' = Reply("delete", user, id, 404)
          /\ UNCHANGED user_bucket_lists
     ELSE /\ reply' = Reply("delete", user, id, 200)
          /\ user_bucket_lists' = [user_bucket_lists EXCEPT ![id] = Gone]
  /\ UNCHANGED <<user_bucket_list, calling>>
  /\ ListUnchanged

\* the rows of user_bucket_list matched by .eq('id', id).eq('user_id', user)
listMatching(id, user) ==
  {i \in DOMAIN user_bucket_list : i = id /\ user_bucket_list[i].user_id = user}

\* the handler of status.js starts (lines 33-61): 400 for a status that is not
\* valid, else the select that checks the owner is sent
StatusReceives(c, user, id, status) ==
  /\ MayArrive
  /\ Free(c)
  /\ IF status \notin validStatuses
     THEN /\ reply' = Reply("status", user, id, 400)
          /\ UNCHANGED calling
     ELSE /\ calling' = [calling EXCEPT ![c] = [NoCall EXCEPT !.pc = "check",
                                                             !.user = user,
                                                             !.item = id,
                                                             !.status = status]]
          /\ UNCHANGED reply
  /\ UNCHANGED <<user_bucket_lists, user_bucket_list>>
  /\ ListUnchanged

\* the owner check is answered (lines 56-90): 404 without a row of the
\* caller, else the update is sent
StatusCheckAnswers(c) ==
  /\ calling[c].pc = "check"
  /\ IF listMatching(calling[c].item, calling[c].user) = {}
     THEN Answer(c, "status", 404)
     ELSE /\ calling' = [calling EXCEPT ![c].pc = "update"]
          /\ UNCHANGED reply
  /\ UNCHANGED <<user_bucket_lists, user_bucket_list>>
  /\ ListUnchanged

\* updateData of the handler (status.js lines 72-83), without updated_at
handlerUpdateData(status) ==
  [status |-> status,
   completed_date |-> IF status = "completed" THEN Date(now) ELSE Null]

\* the table executes the update filtered on id and user_id (lines 86-144):
\* 200, or 500 when no row is matched any more
StatusUpdateExecutes(c) ==
  /\ calling[c].pc = "update"
  /\ IF listMatching(calling[c].item, calling[c].user) = {}
     THEN /\ Answer(c, "status", 500)
          /\ UNCHANGED user_bucket_list
     ELSE /\ Answer(c, "status", 200)
          /\ user_bucket_list' =
               [user_bucket_list EXCEPT
                  ![calling[c].item] = updated(@, handlerUpdateData(calling[c].status))]
  /\ UNCHANGED user_bucket_lists
  /\ ListUnchanged

NextBucketList ==
  \/ \E c \in Callers : \E user \in BucketUsers : \E activityId \in ActivityIds :
        AddReceives(c, user, activityId)
  \/ \E c \in Callers : AddActivityAnswers(c)
  \/ \E c \in Callers : AddExistingAnswers(c)
  \/ \E c \in Callers : AddInsertExecutes(c)
  \/ \E user \in BucketUsers : \E id \in ItemIds : \E status \in RequestStatuses :
        \E completion_date \in ClientDates : PutStatus(user, id, status, completion_date)
  \/ \E user \in BucketUsers : \E id \in ItemIds : DeleteItem(user, id)
  \/ \E c \in Callers : \E user \in BucketUsers : \E id \in ItemIds :
        \E status \in RequestStatuses : StatusReceives(c, user, id, status)
  \/ \E c \in Callers : StatusCheckAnswers(c)
  \/ \E c \in Callers : StatusUpdateExecutes(c)

SpecBucketList == InitBucketList /\ [][NextBucketList]_vars

\* a row's completion date is set exactly when its status is completed
DateIffCompleted(status, date) == (date # Null) <=> (status = "completed")

\* the successful status updates of the route leave the row so
RouteUpdatesKeepDate ==
  \A user \in BucketUsers : \A id \in ItemIds : \A status \in RequestStatuses :
     \A completion_date \in ClientDates :
        (PutStatus(user, id, status, completion_date) /\ reply'.code = 200) =>
           DateIffCompleted(user_bucket_lists'[id].status,
                            user_bucket_lists'[id].completion_date)

\* the successful status updates of the handler of status.js leave the row so
HandlerUpdatesKeepDate ==
  \A c \in Callers :
     (StatusUpdateExecutes(c) /\ reply'.code = 200) =>
        DateIffCompleted(user_bucket_list'[calling[c].item].status,
                         user_bucket_list'[calling[c].item].completed_date)

\* C26: after any successful status update of a bucket-list item its
\* completion date is non-null if and only if its status is completed; in
\* particular updating a completed item to planned or in_progress clears the
\* completion date.
C26_DateIffCompleted == [][RouteUpdatesKeepDate /\ HandlerUpdatesKeepDate]_vars

\* the handler of status.js alone keeps the rule
C26_HandlerClearsDate == [][HandlerUpdatesKeepDate]_vars

\* the route keeps the rule on the rows it completes, and on the rows that
\* were not completed before
C26_RouteSetsDate ==
  [][\A user \in BucketUsers : \A id \in ItemIds : \A status \in RequestStatuses :
       \A completion_date \in ClientDates :
          (/\ PutStatus(user, id, status, completion_date)
           /\ reply'.code = 200
           /\ status = "completed" \/ user_bucket_lists[id].completion_date = Null) =>
             DateIffCompleted(user_bucket_lists'[id].status,
                              user_bucket_lists'[id].completion_date)]_vars

\* the live row id of user_bucket_lists belongs to the user
Owns(user, id) ==
  /\ id \in DOMAIN user_bucket_lists
  /\ user_bucket_lists[id].live
  /\ user_bucket_lists[id].user_id = user

\* the row id of user_bucket_list belongs to the user
OwnsListed(user, id) ==
  /\ id \in DOMAIN user_bucket_list
  /\ user_bucket_list[id].user_id = user

\* the step neither modifies nor removes a row of another user, in either table
OthersUntouched(user) ==
  /\ \A i \in DOMAIN user_bucket_lists :
        (user_bucket_lists[i].live /\ user_bucket_lists[i].user_id # user) =>
           /\ i \in DOMAIN user_bucket_lists'
           /\ user_bucket_lists'[i] = user_bucket_lists[i]
  /\ \A i \in DOMAIN user_bucket_list :
        user_bucket_list[i].user_id # user =>
           /\ i \in DOMAIN user_bucket_list'
           /\ user_bucket_list'[i] = user_bucket_list[i]

\* the step answers 404 and changes no row
Refused == reply'.code = 404 /\ UNCHANGED <<user_bucket_lists, user_bucket_list>>

\* the step answers a request to the route
Replies(route) == reply'.n # reply.n /\ reply'.route = route

\* the step answers a request that was in progress
LeavesPlace == \E c \in Callers : calling[c].pc # "idle" /\ calling'[c] = NoCall

C27_HandlerWitness ==
  /\ reply.route = "status"
  /\ reply.code = 404
  /\ reply.item \in DOMAIN user_bucket_list
  /\ user_bucket_list[reply.item].user_id # reply.user

\* no two live rows of user_bucket_lists have the same user and activity
OneRowPerPair ==
  \A i, j \in DOMAIN user_bucket_lists :
     (i # j /\ user_bucket_lists[i].live /\ user_bucket_lists[j].live) =>
        \/ user_bucket_lists[i].user_id # user_bucket_lists[j].user_id
        \/ user_bucket_lists[i].activity_id # user_bucket_lists[j].activity_id

\* the step answers the add request in place c
AddAnswered(c) ==
  /\ calling[c].pc \in {"activity", "existing", "insert"}
  /\ calling'[c] = NoCall

\* an add of an activity the caller's list holds is answered 409 and inserts
\* nothing
RepeatedAddRefused ==
  \A c \in Callers :
     (AddAnswered(c) /\ rowsOf(calling[c].user, calling[c].activity) # {}) =>
        /\ reply'.code = 409
        /\ user_bucket_lists' = user_bucket_lists

\* the rows a step inserts have the status planned
InsertedPlanned ==
  \A i \in DOMAIN user_bucket_lists' \ DOMAIN user_bucket_lists :
     user_bucket_lists'[i].status = "planned"

\* C28: after any sequence or interleaving of POST /user/bucket-list/add
\* requests user_bucket_lists holds at most one row per (user_id,
\* activity_id); adding an activity already in the caller's list is answered
\* 409 and inserts nothing, and every inserted row starts with status planned.
C28_OneRowPerActivity ==
  [][OneRowPerPair' /\ RepeatedAddRefused /\ InsertedPlanned]_vars

\* with a unique index on (user_id, activity_id) the pairs stay distinct
C28_UniqueUnderIndex == uniqueIndex => OneRowPerPair

\* every inserted row is planned, and an add whose check finds the caller's
\* row is answered 409 without an insert
C28_CheckedAdd ==
  [][/\ InsertedPlanned
     /\ \A c \in Callers :
          (/\ calling[c].pc = "existing"
           /\ calling'[c] # calling[c]
           /\ Cardinality(rowsOf(calling[c].user, calling[c].activity)) = 1) =>
             /\ AddAnswered(c)
             /\ reply'.code = 409
             /\ user_bucket_lists' = user_bucket_lists]_vars

====
